---- MODULE Spec2Model ----
(***************************************************************************)
(* A model of the command side of the vita49 VRT codec: the Command        *)
(* structure (command.rs), the command payload discrimination              *)
(* (command_payload.rs), the ACK payload (ack.rs) and the deku-derived     *)
(* reader and writer of these structures.                                  *)
(*                                                                         *)
(* A 32-bit word (and every wider unsigned integer) is the set of the      *)
(* positions of its set bits, so that no value exceeds the integers of the *)
(* checker.  Option<T> is a sequence of length 0 (None) or 1 (Some).       *)
(***************************************************************************)
EXTENDS Integers, FiniteSets, Sequences, TLC

VARIABLES
    pc,                \* where the packet is: "build", "sized", "sent", "sent_unsized",
                       \* "parsed", "parsed_unsized"
    header,            \* Vrt.header: the packet header word
    cam,               \* Command.cam
    message_id,        \* Command.message_id
    controllee_id,     \* Command.controllee_id   : Option<u32>
    controllee_uuid,   \* Command.controllee_uuid : Option<u128>
    controller_id,     \* Command.controller_id   : Option<u32>
    controller_uuid,   \* Command.controller_uuid : Option<u128>
    command_payload,   \* Command.command_payload : CommandPayload
    result,            \* what the last call returned: "Ok" or the error
    wire,              \* the words to_bytes produced (or the receive buffer)
    parsed             \* what try_from made of the wire

command == <<cam, message_id, controllee_id, controllee_uuid,
             controller_id, controller_uuid, command_payload>>

vars == <<pc, header, cam, message_id, controllee_id, controllee_uuid,
          controller_id, controller_uuid, command_payload, result, wire, parsed>>

-----------------------------------------------------------------------------
(* Bounds of the exploration.                                              *)

\* identifiers 0..MaxId are passed to set_controllee_id / set_controller_id
MaxId == 1
\* UUIDs number 0..MaxUuid are passed to the UUID setters
MaxUuid == 1
\* message IDs 0..MaxMsgId are passed to set_message_id
MaxMsgId == 1
\* a receive buffer holds the header, the CAM and up to MaxTail further words
MaxTail == 10
\* AckResponse words range over MaxResp + 1 values
MaxResp == 0
\* payload byte slices hold up to MaxBytes bytes before a run of zero bytes
MaxBytes == 5

-----------------------------------------------------------------------------
(* Option<T>                                                               *)

None == <<>>
Some(v) == <<v>>
is_some(o) == o # <<>>
is_none(o) == o = <<>>

(* Unsigned integers as sets of bit positions.                             *)

NatToBits(n) == {i \in 0..15 : (n \div (2 ^ i)) % 2 = 1}

RECURSIVE BitsToNat(_)
BitsToNat(b) ==
    IF b = {} THEN 0
    ELSE LET i == CHOOSE x \in b : TRUE IN (2 ^ i) + BitsToNat(b \ {i})

\* the big-endian 32-bit words of an n-word unsigned integer
ToWords(v, n) ==
    [i \in 1..n |-> {b - 32 * (n - i) : b \in {x \in v : x \div 32 = n - i}}]

\* the unsigned integer a sequence of big-endian 32-bit words stands for
FromWords(ws) ==
    UNION {{b + 32 * (Len(ws) - i) : b \in ws[i]} : i \in 1..Len(ws)}

\* the identifiers 0, 16, 32, ...
IdVals == {NatToBits(16 * n) : n \in 0..MaxId}
\* the UUID 0, and UUIDs with a bit in the most and in the least significant word
UuidVals == {IF n = 0 THEN {} ELSE {n + 3, n + 99} : n \in 0..MaxUuid}
\* the message IDs 0, 16, 32, ...
MsgIdVals == {NatToBits(16 * n) : n \in 0..MaxMsgId}

-----------------------------------------------------------------------------
(* ControlAckMode: the CAM word and its accessors.                         *)

controllee_enabled(c) == 31 \in c
controller_enabled(c) == 29 \in c
Id32bit == "Id32bit"
Uuid128bit == "Uuid128bit"
controllee_id_format(c) == IF 30 \in c THEN Uuid128bit ELSE Id32bit
controller_id_format(c) == IF 28 \in c THEN Uuid128bit ELSE Id32bit
validation(c) == 20 \in c
execution(c) == 19 \in c
state(c) == 18 \in c
warning(c) == 17 \in c
error(c) == 16 \in c

enable_controllee(c) == c \cup {31}
disable_controllee(c) == c \ {31}
enable_controller(c) == c \cup {29}
disable_controller(c) == c \ {29}
set_controllee_id_format(c, f) == IF f = Uuid128bit THEN c \cup {30} ELSE c \ {30}
set_controller_id_format(c, f) == IF f = Uuid128bit THEN c \cup {28} ELSE c \ {28}
set_validation(c) == c \cup {20}
set_execution(c) == c \cup {19}
set_state(c) == c \cup {18}
CamDefault == {}

\* the ACK-kind bits of a CAM that are set
AckKindBits(c) == c \cap {20, 19, 18}

\* CAM of scenario S3: action mode Execute, partial packet and warnings
\* permitted, validation, warning and error requested
S3Cam == {27, 26, 24, 20, 17, 16}

\* the ControlAckMode values handed to set_cam
CamInputs == {{}, {20}, {19, 18}, {31}, {29, 28}, S3Cam}

-----------------------------------------------------------------------------
(* PacketHeader of a command packet: packet type in bits 31..28, the       *)
(* acknowledge indicator (bit 26), the cancellation indicator (bit 24) and *)
(* the packet size in bits 15..0.                                          *)

CommandType == {30, 29}
is_ack_packet(h) == 26 \in h
is_cancellation_packet(h) == 24 \in h
packet_size(h) == BitsToNat(h \cap (0..15))
set_packet_size(h, n) == (h \ (0..15)) \cup NatToBits(n)

-----------------------------------------------------------------------------
(* CIF0 indicator bits and the field records.                              *)

cif1_enabled(c) == 1 \in c
cif2_enabled(c) == 2 \in c
cif3_enabled(c) == 3 \in c
field_attributes_enabled(c) == 7 \in c
bandwidth(c) == 29 \in c
gain(c) == 23 \in c

\* The fields of Cif0Fields / Cif0AckFields in declaration order, each named
\* by the bit of the Cif0 accessor of the same name.  gps_ascii (9) and
\* context_association_lists (8) close the list.
Cif0FieldOrder ==
    <<30, 29, 28, 27, 26, 25, 24, 23, 22, 21, 20, 19, 18, 17, 16, 15, 14,
      13, 12, 11, 10, 9, 8>>

Cif0FieldBits == {Cif0FieldOrder[i] : i \in 1..Len(Cif0FieldOrder)}

\* one field of a record: the base value and the CIF7 attribute vector;
\* a value is the sequence of its 32-bit words
FieldDefault == [v |-> None, attrs |-> <<>>]
FieldsDefault == [b \in Cif0FieldBits |-> FieldDefault]

\* Cif7Opts::from(Option<&Cif7>): without CIF7 the current value alone
Cif7Opts(c7) ==
    IF is_none(c7) THEN [current_val |-> TRUE, num_extra_attrs |-> 0]
    ELSE [current_val |-> 31 \in c7[1],
          num_extra_attrs |-> Cardinality(c7[1] \ {31})]

-----------------------------------------------------------------------------
(* The command payload variants and their defaults.                        *)

ControlDefault == [kind |-> "Control", cif0 |-> {}, cif7 |-> None,
                   cif0_fields |-> FieldsDefault]
CancellationDefault == [kind |-> "Cancellation", cif0 |-> {}]
QueryAckDefault == [kind |-> "QueryAck", cif0 |-> {}, cif7 |-> None,
                    cif0_fields |-> FieldsDefault]

AckDefault(k) ==
    [kind |-> k,
     wif0 |-> None, wif1 |-> None, wif2 |-> None, wif3 |-> None, wif7 |-> None,
     eif0 |-> None, eif1 |-> None, eif2 |-> None, eif3 |-> None, eif7 |-> None,
     wif0_fields |-> None, wif1_fields |-> None, wif2_fields |-> None,
     wif3_fields |-> None,
     eif0_fields |-> None, eif1_fields |-> None, eif2_fields |-> None,
     eif3_fields |-> None]

IsAckKind(k) == k \in {"ValidationAck", "ExecAck"}

-----------------------------------------------------------------------------
(* Command factories: <<cam, message_id, controllee_id, controllee_uuid,   *)
(* controller_id, controller_uuid, command_payload>>.                      *)

new_control == <<CamDefault, {}, None, None, None, None, ControlDefault>>
new_cancellation == <<CamDefault, {}, None, None, None, None, CancellationDefault>>
new_validation_ack ==
    <<set_validation(CamDefault), {}, None, None, None, None,
      AckDefault("ValidationAck")>>

\* new_exec_ack that leaves the CAM at its default
new_exec_ack_default_cam ==
    <<CamDefault, {}, None, None, None, None, AckDefault("ExecAck")>>

new_exec_ack ==
    <<set_execution(CamDefault), {}, None, None, None, None, AckDefault("ExecAck")>>

\* new_query_ack that sets the execution bit
new_query_ack_execution ==
    <<set_execution(CamDefault), {}, None, None, None, None, QueryAckDefault>>

new_query_ack ==
    <<set_state(CamDefault), {}, None, None, None, None, QueryAckDefault>>

-----------------------------------------------------------------------------
(* Sizes in 32-bit words.                                                  *)

\* cif_fields! size_words(): the base value, and the first attribute's
\* size times the length of the attribute vector
FieldsSizeWords(f) ==
    LET one(b) == IF b \notin DOMAIN f THEN 0
                  ELSE (IF is_some(f[b].v) THEN Len(f[b].v[1]) ELSE 0)
                       + (IF f[b].attrs # <<>>
                          THEN Len(f[b].attrs[1]) * Len(f[b].attrs) ELSE 0)
        sum[i \in 0..Len(Cif0FieldOrder)] ==
            IF i = 0 THEN 0 ELSE sum[i - 1] + one(Cif0FieldOrder[i])
    IN sum[Len(Cif0FieldOrder)]

\* Ack::size_words()
AckSizeWords(a) ==
    LET bank(f) == IF is_some(f) THEN 1 + FieldsSizeWords(f[1]) ELSE 0
    IN bank(a.wif0_fields) + bank(a.wif1_fields) + bank(a.wif2_fields)
       + bank(a.wif3_fields) + bank(a.eif0_fields) + bank(a.eif1_fields)
       + bank(a.eif2_fields) + bank(a.eif3_fields)

\* Control::size_words() and QueryAck::size_words(): CIF0, CIF7 and the fields
ContextSizeWords(p) ==
    1 + (IF is_some(p.cif7) THEN 1 ELSE 0) + FieldsSizeWords(p.cif0_fields)

\* CommandPayload::size_words()
PayloadSizeWords(p) ==
    CASE p.kind = "Control" -> ContextSizeWords(p)
      [] p.kind = "Cancellation" -> 1
      [] p.kind = "QueryAck" -> ContextSizeWords(p)
      [] OTHER -> AckSizeWords(p)

\* Command::size_words()
CommandSizeWords(c) ==
    1 + 1
    + (IF is_some(c[3]) THEN 1 ELSE IF is_some(c[4]) THEN 4 ELSE 0)
    + (IF is_some(c[5]) THEN 1 ELSE IF is_some(c[6]) THEN 4 ELSE 0)
    + PayloadSizeWords(c[7])

\* Vrt::update_packet_size(): the header word, the stream ID of a command
\* packet and the payload
VrtSizeWords(c) == 1 + 1 + CommandSizeWords(c)

-----------------------------------------------------------------------------
(* The writer deku derives: a field is written when its value is there (an *)
(* Option that is Some, every element of a Vec); the cond of a field       *)
(* governs reading only.                                                   *)

RECURSIVE Flatten(_)
Flatten(ss) == IF ss = <<>> THEN <<>> ELSE Head(ss) \o Flatten(Tail(ss))

WriteOpt(o) == IF is_some(o) THEN <<o[1]>> ELSE <<>>
WriteOptWide(o, n) == IF is_some(o) THEN ToWords(o[1], n) ELSE <<>>

\* a field record written from the last declared field to the first
WriteFields_ascending(f) ==
    Flatten([i \in 1..Len(Cif0FieldOrder) |->
        LET b == Cif0FieldOrder[Len(Cif0FieldOrder) + 1 - i]
        IN IF b \notin DOMAIN f THEN <<>>
           ELSE (IF is_some(f[b].v) THEN f[b].v[1] ELSE <<>>) \o Flatten(f[b].attrs)])

\* a field record: each field's base value, then its attribute vector
WriteFields(f) ==
    Flatten([i \in 1..Len(Cif0FieldOrder) |->
        LET b == Cif0FieldOrder[i]
        IN IF b \notin DOMAIN f THEN <<>>
           ELSE (IF is_some(f[b].v) THEN f[b].v[1] ELSE <<>>) \o Flatten(f[b].attrs)])

WriteOptFields(o) == IF is_some(o) THEN WriteFields(o[1]) ELSE <<>>

\* a writer of Ack that puts each bank's field records after its own
\* indicator words
WriteAck_bankwise(a) ==
    WriteOpt(a.wif0) \o WriteOpt(a.wif1) \o WriteOpt(a.wif2) \o WriteOpt(a.wif3)
    \o WriteOpt(a.wif7)
    \o WriteOptFields(a.wif0_fields) \o WriteOptFields(a.wif1_fields)
    \o WriteOptFields(a.wif2_fields) \o WriteOptFields(a.wif3_fields)
    \o WriteOpt(a.eif0) \o WriteOpt(a.eif1) \o WriteOpt(a.eif2) \o WriteOpt(a.eif3)
    \o WriteOpt(a.eif7)
    \o WriteOptFields(a.eif0_fields) \o WriteOptFields(a.eif1_fields)
    \o WriteOptFields(a.eif2_fields) \o WriteOptFields(a.eif3_fields)

\* struct Ack, in field order
WriteAck(a) ==
    WriteOpt(a.wif0) \o WriteOpt(a.wif1) \o WriteOpt(a.wif2) \o WriteOpt(a.wif3)
    \o WriteOpt(a.wif7)
    \o WriteOpt(a.eif0) \o WriteOpt(a.eif1) \o WriteOpt(a.eif2) \o WriteOpt(a.eif3)
    \o WriteOpt(a.eif7)
    \o WriteOptFields(a.wif0_fields) \o WriteOptFields(a.wif1_fields)
    \o WriteOptFields(a.wif2_fields) \o WriteOptFields(a.wif3_fields)
    \o WriteOptFields(a.eif0_fields) \o WriteOptFields(a.eif1_fields)
    \o WriteOptFields(a.eif2_fields) \o WriteOptFields(a.eif3_fields)

\* Control and QueryAck: CIF0, CIF7, the CIF0 fields
WriteContext(p) == <<p.cif0>> \o WriteOpt(p.cif7) \o WriteFields(p.cif0_fields)

\* enum CommandPayload: the variant's body (the id is not on the wire)
WritePayload(p) ==
    CASE p.kind = "Control" -> WriteContext(p)
      [] p.kind = "Cancellation" -> <<p.cif0>>
      [] p.kind = "QueryAck" -> WriteContext(p)
      [] OTHER -> WriteAck(p)

\* struct Command, in field order
WriteCommand(c) ==
    <<c[1], c[2]>> \o WriteOpt(c[3]) \o WriteOptWide(c[4], 4)
    \o WriteOpt(c[5]) \o WriteOptWide(c[6], 4) \o WritePayload(c[7])

\* Vrt::to_bytes(): the header, the stream ID (0) and the command
WriteVrt(h, c) == <<h, {}>> \o WriteCommand(c)

-----------------------------------------------------------------------------
(* The reader deku derives.  A read step yields ok (enough words were      *)
(* there), the value and the words left.                                   *)

Rd(ok, val, rest) == [ok |-> ok, val |-> val, rest |-> rest]

\* an Option<u32> under a cond
ReadWord(cond, r) ==
    IF ~r.ok THEN Rd(FALSE, None, r.rest)
    ELSE IF ~cond THEN Rd(TRUE, None, r.rest)
    ELSE IF r.rest = <<>> THEN Rd(FALSE, None, r.rest)
    ELSE Rd(TRUE, Some(Head(r.rest)), Tail(r.rest))

\* an Option of an n-word unsigned integer under a cond
ReadWide(cond, n, r) ==
    IF ~r.ok THEN Rd(FALSE, None, r.rest)
    ELSE IF ~cond THEN Rd(TRUE, None, r.rest)
    ELSE IF Len(r.rest) < n THEN Rd(FALSE, None, r.rest)
    ELSE Rd(TRUE, Some(FromWords(SubSeq(r.rest, 1, n))),
            SubSeq(r.rest, n + 1, Len(r.rest)))

\* words per value of each field of Cif0AckFields: an AckResponse
AckWidth == [b \in Cif0FieldBits |-> 1]

\* words per value of each field of Cif0Fields, by the field's type
Cif0Width ==
    [b \in Cif0FieldBits |->
        CASE b \in {30, 24, 22, 19, 18, 16, 10} -> 1     \* u32, i32
          [] b \in {29, 28, 27, 26, 25, 21, 20, 15} -> 2 \* u64, i64
          [] b = 23 -> 1                                 \* Gain
          [] b = 17 -> 2                                 \* DeviceId
          [] b \in {14, 13} -> 11                        \* FormattedGps
          [] b \in {12, 11} -> 13                        \* EcefEphemeris
          [] OTHER -> 2]       \* GpsAscii, ContextAssociationLists (empty)

\* the fields of a cif_fields record from index i of the declaration order:
\* the base value under "indicator bit && current_val", the attributes
\* under "indicator bit && num_extra_attrs > 0", count = num_extra_attrs
RECURSIVE ReadFieldsFrom(_, _, _, _, _, _)
ReadFieldsFrom(i, ind, opts, width, acc, ws) ==
    IF i > Len(Cif0FieldOrder) THEN Rd(TRUE, Some(acc), ws)
    ELSE
        LET b == Cif0FieldOrder[i]
            w == width[b]
            main == b \in ind /\ opts.current_val
            na == IF b \in ind /\ opts.num_extra_attrs > 0
                  THEN opts.num_extra_attrs ELSE 0
            n1 == IF main THEN w ELSE 0
            need == n1 + na * w
        IN IF Len(ws) < need THEN Rd(FALSE, None, ws)
           ELSE ReadFieldsFrom(i + 1, ind, opts, width,
                    [acc EXCEPT ![b] =
                        [v |-> IF main THEN Some(SubSeq(ws, 1, w)) ELSE None,
                         attrs |-> [k \in 1..na |->
                             SubSeq(ws, n1 + (k - 1) * w + 1, n1 + k * w)]]],
                    SubSeq(ws, need + 1, Len(ws)))

\* an Option<Cif0AckFields> under cond = "wif0.is_some()"
ReadOptFields(ind, c7, width, r) ==
    IF ~r.ok THEN Rd(FALSE, None, r.rest)
    ELSE IF is_none(ind) THEN Rd(TRUE, None, r.rest)
    ELSE ReadFieldsFrom(1, ind[1], Cif7Opts(c7), width, FieldsDefault, r.rest)

\* the field records of CIF1, CIF2 and CIF3: none of their fields is modelled
NoFields == <<>>
ReadOptNoFields(ind, r) ==
    IF ~r.ok THEN Rd(FALSE, None, r.rest)
    ELSE IF is_none(ind) THEN Rd(TRUE, None, r.rest)
    ELSE Rd(TRUE, Some(NoFields), r.rest)

\* a chain test that looks at the presence of the indicator word only
Chain_present(o, bit) == is_some(o)

\* the chain bit of an indicator word that may be absent
Chain(o, bit) == is_some(o) /\ bit \in o[1]

\* struct Ack in field order: ten indicator words, eight field records
AckLayout ==
    <<"wif0", "wif1", "wif2", "wif3", "wif7",
      "eif0", "eif1", "eif2", "eif3", "eif7",
      "wif0_fields", "wif1_fields", "wif2_fields", "wif3_fields",
      "eif0_fields", "eif1_fields", "eif2_fields", "eif3_fields">>

\* the chain bit of WIF0 / EIF0 that announces the i-th indicator word
AckChainBit == <<0, 1, 2, 3, 7, 0, 1, 2, 3, 7>>

\* the indicator word that governs the i-th field of struct Ack
AckIndicatorOf ==
    <<"", "", "", "", "", "", "", "", "", "",
      "wif0", "wif1", "wif2", "wif3", "eif0", "eif1", "eif2", "eif3">>

\* struct Ack under the CAM: WIF0 under warning, WIF1-3 and WIF7 under
\* warning and the chain bit of WIF0, the same under error for the EIF
\* words, then each field record under "its indicator word is Some"
ReadAck(k, c, r) ==
    LET step[i \in 0..Len(AckLayout)] ==
            IF i = 0 THEN Rd(r.ok, AckDefault(k), r.rest)
            ELSE
                LET p == step[i - 1]
                    x == IF i = 1 THEN ReadWord(warning(c), p)
                         ELSE IF i <= 5
                         THEN ReadWord(warning(c)
                                       /\ Chain(p.val.wif0, AckChainBit[i]), p)
                         ELSE IF i = 6 THEN ReadWord(error(c), p)
                         ELSE IF i <= 10
                         THEN ReadWord(error(c)
                                       /\ Chain(p.val.eif0, AckChainBit[i]), p)
                         ELSE IF i = 11
                         THEN ReadOptFields(p.val.wif0, p.val.wif7, AckWidth, p)
                         ELSE IF i = 15
                         THEN ReadOptFields(p.val.eif0, p.val.eif7, AckWidth, p)
                         ELSE ReadOptNoFields(p.val[AckIndicatorOf[i]], p)
                IN Rd(x.ok, [p.val EXCEPT ![AckLayout[i]] = x.val], x.rest)
    IN step[Len(AckLayout)]

\* a reader of Control that drops the reserved bits of CIF0
ReadContext_masked(k, r) ==
    LET c0 == ReadWord(TRUE, r)
        c7 == ReadWord(Chain(c0.val, 7), c0)
        f == ReadOptFields(c0.val, c7.val, Cif0Width, c7)
    IN IF ~f.ok THEN Rd(FALSE, None, f.rest)
       ELSE Rd(TRUE, [kind |-> k, cif0 |-> c0.val[1] \ {6, 5, 4, 0},
                      cif7 |-> c7.val, cif0_fields |-> f.val[1]], f.rest)

\* Control and QueryAck: CIF0, CIF7 under the CIF0 chain bit, the CIF0 fields
ReadContext(k, r) ==
    LET c0 == ReadWord(TRUE, r)
        c7 == ReadWord(Chain(c0.val, 7), c0)
        f == ReadOptFields(c0.val, c7.val, Cif0Width, c7)
    IN IF ~f.ok THEN Rd(FALSE, None, f.rest)
       ELSE Rd(TRUE, [kind |-> k, cif0 |-> c0.val[1], cif7 |-> c7.val,
                      cif0_fields |-> f.val[1]], f.rest)

\* Cancellation: the indicator word alone
ReadCancellation(r) ==
    LET c0 == ReadWord(TRUE, r)
    IN IF ~c0.ok THEN Rd(FALSE, None, c0.rest)
       ELSE Rd(TRUE, [kind |-> "Cancellation", cif0 |-> c0.val[1]], c0.rest)

\* derive_type that takes the state bit for an execution acknowledge
derive_type_state_as_exec(c, h) ==
    IF is_ack_packet(h)
    THEN IF Cardinality(AckKindBits(c)) # 1 THEN "panic"
         ELSE IF validation(c) THEN "ValidationAck"
         ELSE "ExecAck"
    ELSE IF is_cancellation_packet(h) THEN "Cancellation"
    ELSE "Control"

\* derive_type that tests the cancellation indicator only for CAMs without
\* an acknowledge bit
derive_type_cam_over_cancel(c, h) ==
    IF is_ack_packet(h)
    THEN IF Cardinality(AckKindBits(c)) # 1 THEN "panic"
         ELSE IF validation(c) THEN "ValidationAck"
         ELSE IF execution(c) THEN "ExecAck"
         ELSE "QueryAck"
    ELSE IF is_cancellation_packet(h) /\ AckKindBits(c) = {} THEN "Cancellation"
    ELSE "Control"

\* CommandPayload::derive_type: the variant, or "panic"
derive_type(c, h) ==
    LET flags == <<validation(c), execution(c), state(c)>>
    IN IF is_ack_packet(h)
       THEN IF Cardinality({i \in 1..3 : flags[i]}) # 1
            THEN "panic"
            ELSE IF validation(c) THEN "ValidationAck"
            ELSE IF execution(c) THEN "ExecAck"
            ELSE IF state(c) THEN "QueryAck"
            ELSE "unreachable"
       ELSE IF is_cancellation_packet(h) THEN "Cancellation"
       ELSE "Control"

\* the body of the variant derive_type selected
ReadPayload(k, c, r) ==
    CASE k = "Control" -> ReadContext(k, r)
      [] k = "Cancellation" -> ReadCancellation(r)
      [] k = "QueryAck" -> ReadContext(k, r)
      [] OTHER -> ReadAck(k, c, r)

\* struct Command under the packet header: outcome "Ok", "MalformedField"
\* (the words ran out) or "panic"
ReadCommand(h, ws) ==
    LET c == ReadWord(TRUE, Rd(TRUE, None, ws))
        m == ReadWord(TRUE, c)
        cm == IF c.ok THEN c.val[1] ELSE {}
        ee == ReadWord(controllee_enabled(cm)
                       /\ controllee_id_format(cm) = Id32bit, m)
        eu == ReadWide(controllee_enabled(cm)
                       /\ controllee_id_format(cm) = Uuid128bit, 4, ee)
        re == ReadWord(controller_enabled(cm)
                       /\ controller_id_format(cm) = Id32bit, eu)
        ru == ReadWide(controller_enabled(cm)
                       /\ controller_id_format(cm) = Uuid128bit, 4, re)
        k == derive_type(cm, h)
        p == ReadPayload(k, cm, ru)
    IN IF ~ru.ok THEN [outcome |-> "MalformedField"]
       ELSE IF k = "panic" THEN [outcome |-> "panic"]
       ELSE IF ~p.ok THEN [outcome |-> "MalformedField"]
       ELSE [outcome |-> "Ok",
             command |-> <<cm, m.val[1], ee.val, eu.val, re.val, ru.val, p.val>>,
             rest |-> p.rest]

\* Vrt::try_from(&[u8]): the header, the stream ID, the command; the
\* declared size must not exceed the buffer and must be the size parsed
ParseVrt(ws) ==
    IF Len(ws) < 2 THEN [outcome |-> "TruncatedPacket"]
    ELSE IF Len(ws) < packet_size(ws[1]) THEN [outcome |-> "TruncatedPacket"]
    ELSE LET r == ReadCommand(ws[1], SubSeq(ws, 3, Len(ws)))
         IN IF r.outcome # "Ok" THEN r
            ELSE IF Len(ws) - Len(r.rest) # packet_size(ws[1])
                 THEN [outcome |-> "InconsistentHeader"]
            ELSE [outcome |-> "Ok", header |-> ws[1], command |-> r.command]

-----------------------------------------------------------------------------
(* Vrt factories.                                                          *)

NoParse == [outcome |-> "none"]

\* the state of a packet fresh from a factory, as the tuple vars
Fresh(h, c) ==
    <<"build", set_packet_size(h, VrtSizeWords(c)),
      c[1], c[2], c[3], c[4], c[5], c[6], c[7],
      "Ok", <<>>, NoParse>>

NewPacket(h, c) ==
    LET t == Fresh(h, c)
    IN /\ pc' = t[1]
       /\ header' = t[2]
       /\ cam' = t[3]
       /\ message_id' = t[4]
       /\ controllee_id' = t[5]
       /\ controllee_uuid' = t[6]
       /\ controller_id' = t[7]
       /\ controller_uuid' = t[8]
       /\ command_payload' = t[9]
       /\ result' = t[10]
       /\ wire' = t[11]
       /\ parsed' = t[12]

new_control_packet == NewPacket(CommandType, new_control)
new_cancellation_packet ==
    NewPacket(CommandType \cup {24}, new_cancellation)
new_validation_ack_packet ==
    NewPacket(CommandType \cup {26}, new_validation_ack)
new_exec_ack_packet ==
    NewPacket(CommandType \cup {26}, new_exec_ack)
new_query_ack_packet ==
    NewPacket(CommandType \cup {26}, new_query_ack)

-----------------------------------------------------------------------------
(* Operations on a packet under construction.                              *)

\* a packet is sized once, after its last mutation
Mutable == pc = "build"

\* Vrt::update_packet_size()
update_packet_size ==
    /\ Mutable
    /\ pc' = "sized"
    /\ header' = set_packet_size(header, VrtSizeWords(command))
    /\ result' = "Ok"
    /\ UNCHANGED <<command, wire, parsed>>

\* Command::set_message_id
set_message_id(m) ==
    /\ Mutable
    /\ pc' = "build"
    /\ message_id' = m
    /\ result' = "Ok"
    /\ UNCHANGED <<header, cam, controllee_id, controllee_uuid, controller_id,
                   controller_uuid, command_payload, wire, parsed>>

\* Command::set_cam
set_cam(mode) ==
    /\ Mutable
    /\ pc' = "build"
    /\ cam' = mode
    /\ result' = "Ok"
    /\ UNCHANGED <<header, message_id, controllee_id, controllee_uuid,
                   controller_id, controller_uuid, command_payload, wire, parsed>>

\* set_controllee_id that disables the controllee on every None
set_controllee_id_always_disable(id) ==
    /\ Mutable
    /\ IF is_some(id) /\ is_some(controllee_uuid)
       THEN /\ result' = "TriedIdWhenUuidSet"
            /\ UNCHANGED <<pc, cam, controllee_id>>
       ELSE /\ pc' = "build"
            /\ controllee_id' = id
            /\ cam' = IF is_some(id)
                      THEN set_controllee_id_format(enable_controllee(cam), Id32bit)
                      ELSE disable_controllee(cam)
            /\ result' = "Ok"
    /\ UNCHANGED <<header, message_id, controllee_uuid, controller_id,
                   controller_uuid, command_payload, wire, parsed>>

\* Command::set_controllee_id
set_controllee_id(id) ==
    /\ Mutable
    /\ IF is_some(id) /\ is_some(controllee_uuid)
       THEN /\ result' = "TriedIdWhenUuidSet"
            /\ UNCHANGED <<pc, cam, controllee_id>>
       ELSE /\ pc' = "build"
            /\ controllee_id' = id
            /\ cam' = IF is_some(id)
                      THEN set_controllee_id_format(enable_controllee(cam), Id32bit)
                      ELSE IF is_none(controllee_uuid)
                           THEN disable_controllee(cam) ELSE cam
            /\ result' = "Ok"
    /\ UNCHANGED <<header, message_id, controllee_uuid, controller_id,
                   controller_uuid, command_payload, wire, parsed>>

\* set_controller_id that disables the controller before it checks
set_controller_id_early_write(id) ==
    /\ Mutable
    /\ IF is_some(id) /\ is_some(controller_uuid)
       THEN /\ result' = "TriedIdWhenUuidSet"
            /\ cam' = disable_controller(cam)
            /\ UNCHANGED <<pc, controller_id>>
       ELSE /\ pc' = "build"
            /\ controller_id' = id
            /\ cam' = IF is_some(id)
                      THEN set_controller_id_format(enable_controller(cam), Id32bit)
                      ELSE IF is_none(controller_uuid)
                           THEN disable_controller(cam) ELSE cam
            /\ result' = "Ok"
    /\ UNCHANGED <<header, message_id, controllee_id, controllee_uuid,
                   controller_uuid, command_payload, wire, parsed>>

\* Command::set_controller_id
set_controller_id(id) ==
    /\ Mutable
    /\ IF is_some(id) /\ is_some(controller_uuid)
       THEN /\ result' = "TriedIdWhenUuidSet"
            /\ UNCHANGED <<pc, cam, controller_id>>
       ELSE /\ pc' = "build"
            /\ controller_id' = id
            /\ cam' = IF is_some(id)
                      THEN set_controller_id_format(enable_controller(cam), Id32bit)
                      ELSE IF is_none(controller_uuid)
                           THEN disable_controller(cam) ELSE cam
            /\ result' = "Ok"
    /\ UNCHANGED <<header, message_id, controllee_id, controllee_uuid,
                   controller_uuid, command_payload, wire, parsed>>

\* set_controllee_uuid without the check of controllee_id
set_controllee_uuid_unchecked(uuid) ==
    /\ Mutable
    /\ pc' = "build"
    /\ controllee_uuid' = uuid
    /\ cam' = IF is_some(uuid)
              THEN set_controllee_id_format(enable_controllee(cam), Uuid128bit)
              ELSE IF is_none(controllee_id) THEN disable_controllee(cam) ELSE cam
    /\ result' = "Ok"
    /\ UNCHANGED <<header, message_id, controllee_id, controller_id,
                   controller_uuid, command_payload, wire, parsed>>

\* Command::set_controllee_uuid
set_controllee_uuid(uuid) ==
    /\ Mutable
    /\ IF is_some(uuid) /\ is_some(controllee_id)
       THEN /\ result' = "TriedUuidWhenIdSet"
            /\ UNCHANGED <<pc, cam, controllee_uuid>>
       ELSE /\ pc' = "build"
            /\ controllee_uuid' = uuid
            /\ cam' = IF is_some(uuid)
                      THEN set_controllee_id_format(enable_controllee(cam), Uuid128bit)
                      ELSE IF is_none(controllee_id)
                           THEN disable_controllee(cam) ELSE cam
            /\ result' = "Ok"
    /\ UNCHANGED <<header, message_id, controllee_id, controller_id,
                   controller_uuid, command_payload, wire, parsed>>

\* Command::set_controller_uuid
set_controller_uuid(uuid) ==
    /\ Mutable
    /\ IF is_some(uuid) /\ is_some(controller_id)
       THEN /\ result' = "TriedUuidWhenIdSet"
            /\ UNCHANGED <<pc, cam, controller_uuid>>
       ELSE /\ pc' = "build"
            /\ controller_uuid' = uuid
            /\ cam' = IF is_some(uuid)
                      THEN set_controller_id_format(enable_controller(cam), Uuid128bit)
                      ELSE IF is_none(controller_id)
                           THEN disable_controller(cam) ELSE cam
            /\ result' = "Ok"
    /\ UNCHANGED <<header, message_id, controllee_id, controllee_uuid,
                   controller_id, command_payload, wire, parsed>>

\* Vrt::to_bytes()
to_bytes ==
    /\ pc \in {"build", "sized"}
    /\ pc' = IF pc = "sized" THEN "sent" ELSE "sent_unsized"
    /\ wire' = WriteVrt(header, command)
    /\ result' = "Ok"
    /\ UNCHANGED <<header, command, parsed>>

\* Vrt::try_from(&[u8]) on the words sent
try_from ==
    /\ pc \in {"sent", "sent_unsized"}
    /\ pc' = IF pc = "sent" THEN "parsed" ELSE "parsed_unsized"
    /\ LET r == ParseVrt(wire)
       IN parsed' = r /\ result' = r.outcome
    /\ UNCHANGED <<header, command, wire>>

OptIds == {None} \cup {Some(v) : v \in IdVals}
OptUuids == {None} \cup {Some(v) : v \in UuidVals}

-----------------------------------------------------------------------------
\* the variables hold the tuple t
StateIs(t) ==
    /\ pc = t[1]
    /\ header = t[2]
    /\ cam = t[3]
    /\ message_id = t[4]
    /\ controllee_id = t[5]
    /\ controllee_uuid = t[6]
    /\ controller_id = t[7]
    /\ controller_uuid = t[8]
    /\ command_payload = t[9]
    /\ result = t[10]
    /\ wire = t[11]
    /\ parsed = t[12]

FreshPackets ==
    {Fresh(CommandType, new_control),
     Fresh(CommandType \cup {24}, new_cancellation),
     Fresh(CommandType \cup {26}, new_validation_ack),
     Fresh(CommandType \cup {26}, new_exec_ack),
     Fresh(CommandType \cup {26}, new_query_ack)}

Init == \E t \in FreshPackets : StateIs(t)

Next ==
    \/ new_control_packet
    \/ new_cancellation_packet
    \/ new_validation_ack_packet
    \/ new_exec_ack_packet
    \/ new_query_ack_packet
    \/ update_packet_size
    \/ \E m \in MsgIdVals : set_message_id(m)
    \/ \E mode \in CamInputs : set_cam(mode)
    \/ \E id \in OptIds : set_controllee_id(id)
    \/ \E id \in OptIds : set_controller_id(id)
    \/ \E uuid \in OptUuids : set_controllee_uuid(uuid)
    \/ \E uuid \in OptUuids : set_controller_uuid(uuid)
    \/ to_bytes
    \/ try_from

Spec == Init /\ [][Next]_vars

-----------------------------------------------------------------------------
(* The identifier setters of Command.                                      *)

\* C1: whatever setters were called, with whatever arguments and outcome,
\* controllee_id and controllee_uuid are never both Some, and controller_id
\* and controller_uuid are never both Some.
C1_IdUuidExclusive ==
    /\ ~(is_some(controllee_id) /\ is_some(controllee_uuid))
    /\ ~(is_some(controller_id) /\ is_some(controller_uuid))

\* a conflicting UUID call was refused while both parties carry an identifier
C1_Witness ==
    /\ result = "TriedUuidWhenIdSet"
    /\ is_some(controllee_id)
    /\ is_some(controller_uuid)

\* the packet as the caller sees it
packet == <<header, command>>

\* C2: set_controllee_uuid(Some(_)) while controllee_id is Some returns
\* TriedUuidWhenIdSet, set_controllee_id(Some(_)) while controllee_uuid is
\* Some returns TriedIdWhenUuidSet, the same for the controller pair, and
\* each such call leaves the whole packet unchanged.
C2_ConflictRejected ==
    [][/\ \A u \in UuidVals :
            set_controllee_uuid(Some(u)) /\ is_some(controllee_id)
            => result' = "TriedUuidWhenIdSet" /\ packet' = packet
       /\ \A x \in IdVals :
            set_controllee_id(Some(x)) /\ is_some(controllee_uuid)
            => result' = "TriedIdWhenUuidSet" /\ packet' = packet
       /\ \A u \in UuidVals :
            set_controller_uuid(Some(u)) /\ is_some(controller_id)
            => result' = "TriedUuidWhenIdSet" /\ packet' = packet
       /\ \A x \in IdVals :
            set_controller_id(Some(x)) /\ is_some(controller_uuid)
            => result' = "TriedIdWhenUuidSet" /\ packet' = packet]_vars

\* an identifier call on the controller was refused while the controllee has
\* no UUID and the CAM enables the controller
C2_Witness ==
    /\ result = "TriedIdWhenUuidSet"
    /\ is_some(controller_uuid)
    /\ is_none(controllee_uuid)
    /\ controller_enabled(cam)

\* C3: a successful set_controllee_id(Some(x)) leaves the controllee enabled
\* with format 32-bit, a successful set_controllee_uuid(Some(x)) enabled with
\* format 128-bit; a call with None disables the controllee when the other
\* form is unset and leaves the CAM alone when it is set; the controller
\* setters do the same on the controller flags; no setter touches the flags
\* of the other party.
C3_CamFollowsSetter ==
    [][/\ \A x \in IdVals :
            set_controllee_id(Some(x)) /\ result' = "Ok"
            => /\ controllee_enabled(cam')
               /\ controllee_id_format(cam') = Id32bit
               /\ cam' \ {31, 30} = cam \ {31, 30}
       /\ \A u \in UuidVals :
            set_controllee_uuid(Some(u)) /\ result' = "Ok"
            => /\ controllee_enabled(cam')
               /\ controllee_id_format(cam') = Uuid128bit
               /\ cam' \ {31, 30} = cam \ {31, 30}
       /\ set_controllee_id(None)
            => IF is_none(controllee_uuid)
               THEN ~controllee_enabled(cam') /\ cam' \ {31} = cam \ {31}
               ELSE cam' = cam
       /\ set_controllee_uuid(None)
            => IF is_none(controllee_id)
               THEN ~controllee_enabled(cam') /\ cam' \ {31} = cam \ {31}
               ELSE cam' = cam
       /\ \A x \in IdVals :
            set_controller_id(Some(x)) /\ result' = "Ok"
            => /\ controller_enabled(cam')
               /\ controller_id_format(cam') = Id32bit
               /\ cam' \ {29, 28} = cam \ {29, 28}
       /\ \A u \in UuidVals :
            set_controller_uuid(Some(u)) /\ result' = "Ok"
            => /\ controller_enabled(cam')
               /\ controller_id_format(cam') = Uuid128bit
               /\ cam' \ {29, 28} = cam \ {29, 28}
       /\ set_controller_id(None)
            => IF is_none(controller_uuid)
               THEN ~controller_enabled(cam') /\ cam' \ {29} = cam \ {29}
               ELSE cam' = cam
       /\ set_controller_uuid(None)
            => IF is_none(controller_id)
               THEN ~controller_enabled(cam') /\ cam' \ {29} = cam \ {29}
               ELSE cam' = cam]_vars

\* scenario S3: the CAM of S3 set, then controllee_id = 0 and
\* controller_uuid = 0: controllee format 32-bit, controller format 128-bit
C3_Witness ==
    /\ controllee_id = Some({})
    /\ controller_uuid = Some({})
    /\ cam = S3Cam \cup {31, 29, 28}
    /\ controllee_id_format(cam) = Id32bit
    /\ controller_id_format(cam) = Uuid128bit

-----------------------------------------------------------------------------
(* Decoding of received buffers: any indicator bits, any CAM.               *)

\* the words after the message ID are zero
RECURSIVE Zeros(_)
Zeros(n) == IF n = 0 THEN <<>> ELSE <<{}>> \o Zeros(n - 1)

\* the CAM bits that decide what is read: the identifier flags, the
\* acknowledge kinds, warning and error
CamDecodeBits == {31, 30, 29, 28, 20, 19, 18, 17, 16}

\* a buffer of a command packet: header, stream ID, CAM, message ID, tail;
\* the header declares the length of the buffer
Buffer(ind, c, n) ==
    <<set_packet_size(CommandType \cup ind, n + 4), {}, c, {}>> \o Zeros(n)

Buffers ==
    {Buffer(ind, c, n) : ind \in SUBSET {26, 24}, c \in SUBSET CamDecodeBits,
                         n \in 0..MaxTail}

\* the receiver holds a buffer; the packet variables repeat the header and
\* the CAM of the buffer
InitDecode ==
    \E b \in Buffers :
        StateIs(<<"sent", b[1], b[3], b[4], None, None, None, None,
                  ControlDefault, "Ok", b, NoParse>>)

NextDecode == try_from

SpecDecode == InitDecode /\ [][NextDecode]_vars

Decoded == pc = "parsed" /\ parsed.outcome = "Ok"

\* the variant of the decoded payload
DecodedKind == parsed.command[7].kind

\* C4: on decode, an ACK header with exactly one of CAM.validation /
\* CAM.execution / CAM.state gives ValidationAck / ExecAck / QueryAck, a
\* header that marks neither ACK nor cancellation gives Control whatever
\* the CAM is, and the variant is the one derive_type computes from the
\* header and the CAM of the buffer alone.
C4_VariantTable ==
    Decoded =>
        /\ is_ack_packet(wire[1]) /\ AckKindBits(wire[3]) = {20}
           => DecodedKind = "ValidationAck"
        /\ is_ack_packet(wire[1]) /\ AckKindBits(wire[3]) = {19}
           => DecodedKind = "ExecAck"
        /\ is_ack_packet(wire[1]) /\ AckKindBits(wire[3]) = {18}
           => DecodedKind = "QueryAck"
        /\ ~is_ack_packet(wire[1]) /\ ~is_cancellation_packet(wire[1])
           => DecodedKind = "Control"
        /\ DecodedKind = derive_type(wire[3], wire[1])

\* a state acknowledge with both identifiers, warnings and errors decoded
C4_Witness ==
    /\ Decoded
    /\ is_ack_packet(wire[1])
    /\ wire[3] = {31, 29, 28, 18, 17, 16}
    /\ DecodedKind = "QueryAck"

AmbiguousAck ==
    /\ is_ack_packet(wire[1])
    /\ Cardinality(AckKindBits(wire[3])) # 1
    /\ ReadCommand(wire[1], SubSeq(wire, 3, Len(wire))).outcome # "MalformedField"

\* C6: decoding an ACK buffer with zero, two or three ACK-kind bits returns
\* the error AmbiguousAckKind from try_from.
C6_AmbiguousAckIsError ==
    pc = "parsed" /\ AmbiguousAck => result = "AmbiguousAckKind"

-----------------------------------------------------------------------------
(* Acknowledge packets and the round trip.                                 *)

\* the CAM bit of an acknowledge variant
KindBit(k) ==
    IF k = "ValidationAck" THEN 20 ELSE IF k = "ExecAck" THEN 19 ELSE 18

AckKinds == {"ValidationAck", "ExecAck", "QueryAck"}

\* C7: in every ACK packet, built or decoded, exactly one of CAM.validation,
\* CAM.execution, CAM.state is set, the one of the payload variant.
C7_AckKindMatchesCam ==
    /\ command_payload.kind \in AckKinds
       => AckKindBits(cam) = {KindBit(command_payload.kind)}
    /\ Decoded /\ DecodedKind \in AckKinds
       => AckKindBits(parsed.command[1]) = {KindBit(DecodedKind)}

\* the packets the three acknowledge factories return
FreshAcks ==
    {<<set_packet_size(CommandType \cup {26}, VrtSizeWords(c)), c>> :
        c \in {new_validation_ack, new_exec_ack, new_query_ack}}

\* C8: a packet of new_validation_ack_packet, new_exec_ack_packet or
\* new_query_ack_packet, written by to_bytes and read by try_from, parses,
\* the parsed header marks an ACK, the parsed payload is of the variant of
\* the original and the parsed CAM has the bit of that variant and no other
\* ACK-kind bit.
C8_FreshAckRoundTrip ==
    pc \in {"parsed", "parsed_unsized"} /\ packet \in FreshAcks =>
        /\ result = "Ok"
        /\ parsed.outcome = "Ok"
        /\ is_ack_packet(parsed.header)
        /\ parsed.command[7].kind = command_payload.kind
        /\ AckKindBits(parsed.command[1]) = {KindBit(command_payload.kind)}

\* scenario S-exec: new_exec_ack_packet, to_bytes, try_from
C8_Witness ==
    /\ pc = "parsed_unsized"
    /\ packet \in FreshAcks
    /\ command_payload.kind = "ExecAck"
    /\ parsed.outcome = "Ok"
    /\ execution(parsed.command[1])

\* C9: a packet built from a factory by the public setters, sized by
\* update_packet_size, written and read back, parses to the same packet.
C9_RoundTrip ==
    pc = "parsed" =>
        /\ result = "Ok"
        /\ parsed.outcome = "Ok"
        /\ parsed.header = header
        /\ parsed.command = command

-----------------------------------------------------------------------------
(* Acknowledge payloads with warning and error indicator banks.            *)

AckRespVals == {{31 - n} : n \in 0..MaxResp}

\* an acknowledge's payload_mut(): validation_ack_mut() or exec_ack_mut()
AckMutable == Mutable /\ IsAckKind(command_payload.kind)

\* the payload is replaced by p, nothing else moves
AckBecomes(p) ==
    /\ AckMutable
    /\ pc' = "build"
    /\ command_payload' = p
    /\ result' = "Ok"
    /\ UNCHANGED <<header, cam, message_id, controllee_id, controllee_uuid,
                   controller_id, controller_uuid, wire, parsed>>

\* *ack.wif0_mut() = v
wif0_mut(v) == AckBecomes([command_payload EXCEPT !.wif0 = v])

\* *ack.wif0_fields_mut() = v
wif0_fields_mut(v) == AckBecomes([command_payload EXCEPT !.wif0_fields = v])

\* ack.wif7 = v
set_wif7(v) == AckBecomes([command_payload EXCEPT !.wif7 = v])

\* *ack.eif0_mut() = v
eif0_mut(v) == AckBecomes([command_payload EXCEPT !.eif0 = v])

\* *ack.eif0_fields_mut() = v
eif0_fields_mut(v) == AckBecomes([command_payload EXCEPT !.eif0_fields = v])

\* ack.eif7 = v
set_eif7(v) == AckBecomes([command_payload EXCEPT !.eif7 = v])

\* indicator words: none, bandwidth, bandwidth with field attributes enabled
IndicatorInputs == {None, Some({29}), Some({29, 7})}

\* CIF7 words: none, current value and one further attribute
Cif7Inputs == {None, Some({31, 30})}

\* Cif0AckFields with a response for bandwidth and n attribute responses
BandwidthResponse(r, n) ==
    [FieldsDefault EXCEPT ![29] = [v |-> Some(<<r>>),
                                   attrs |-> [i \in 1..n |-> <<r>>]]]

AckFieldsInputs ==
    {None} \cup {Some(BandwidthResponse(r, n)) : r \in AckRespVals, n \in 0..1}

\* CAMs that keep the acknowledge kind and choose warning and error
AckCamInputs == {AckKindBits(cam) \cup w : w \in SUBSET {17, 16}}

InitAck ==
    \E t \in {Fresh(CommandType \cup {26}, new_validation_ack),
              Fresh(CommandType \cup {26}, new_exec_ack)} : StateIs(t)

NextAck ==
    \/ \E mode \in AckCamInputs : set_cam(mode)
    \/ \E v \in IndicatorInputs : wif0_mut(v)
    \/ \E v \in AckFieldsInputs : wif0_fields_mut(v)
    \/ \E v \in Cif7Inputs : set_wif7(v)
    \/ \E v \in IndicatorInputs : eif0_mut(v)
    \/ \E v \in AckFieldsInputs : eif0_fields_mut(v)
    \/ \E v \in Cif7Inputs : set_eif7(v)
    \/ update_packet_size
    \/ to_bytes
    \/ try_from

SpecAck == InitAck /\ [][NextAck]_vars

\* C10: Command.size_words() is the number of words the command writes, for
\* acknowledges Ack.size_words() is the number of words of all indicator
\* words present (WIF0-3, WIF7, EIF0-3, EIF7) and all field records, and a
\* packet written after update_packet_size has packet_size words.
C10_SizeIsWordsWritten ==
    /\ CommandSizeWords(command) = Len(WriteCommand(command))
    /\ IsAckKind(command_payload.kind)
       => AckSizeWords(command_payload) = Len(WriteAck(command_payload))
    /\ pc = "sent" => Len(wire) = packet_size(header)

-----------------------------------------------------------------------------
(* Presence of the warning and error banks.                                *)

\* the banks of the acknowledge a agree with the CAM c
BanksFollowCam(a, c) ==
    /\ is_some(a.wif0) <=> warning(c)
    /\ is_some(a.wif0_fields) <=> warning(c)
    /\ is_some(a.eif0) <=> error(c)
    /\ is_some(a.eif0_fields) <=> error(c)

\* C11: in every ACK payload, written after it was built through the Ack
\* manipulators or decoded, WIF0 and its field record are present if and
\* only if CAM.warning is set, EIF0 and its field record if and only if
\* CAM.error is set.
C11_BanksIffCam ==
    /\ pc \in {"sent", "sent_unsized"} /\ IsAckKind(command_payload.kind)
       => BanksFollowCam(command_payload, cam)
    /\ Decoded /\ IsAckKind(DecodedKind)
       => BanksFollowCam(parsed.command[7], parsed.command[1])

-----------------------------------------------------------------------------
(* The typed manipulators of the acknowledge fields: set_<field>(level,    *)
(* response) and <field>().                                                *)

AckLevels == {"Warning", "Error"}

\* the indicator word and the field record of a bank
BankIndicator(level) == IF level = "Warning" THEN "wif0" ELSE "eif0"
BankFields(level) == IF level = "Warning" THEN "wif0_fields" ELSE "eif0_fields"

\* the indicator bits of a bank, none for a bank that is absent
BankBits(a, level) ==
    IF is_some(a[BankIndicator(level)]) THEN a[BankIndicator(level)][1] ELSE {}

\* the response of field b in a bank
BankResponse(a, level, b) ==
    IF is_some(a[BankFields(level)]) THEN a[BankFields(level)][1][b].v ELSE None

\* set_<field> that always writes the warning bank
set_ack_field_warning_only(a, b, level, resp) ==
    LET bits == BankBits(a, "Warning")
        recs == IF is_some(a.wif0_fields) THEN a.wif0_fields[1] ELSE FieldsDefault
    IN IF is_none(resp) /\ is_none(a.wif0) /\ is_none(a.wif0_fields) THEN a
       ELSE [a EXCEPT
               !.wif0 = Some(IF is_some(resp) THEN bits \cup {b} ELSE bits \ {b}),
               !.wif0_fields = Some([recs EXCEPT ![b].v = resp])]

\* ack_field!(0, <field>): set_<field>(level, response) on the acknowledge a
\* for the field of CIF0 bit b; a response is one word, resp = Some(<<r>>)
set_ack_field(a, b, level, resp) ==
    LET ind == BankIndicator(level)
        fl == BankFields(level)
        bits == BankBits(a, level)
        recs == IF is_some(a[fl]) THEN a[fl][1] ELSE FieldsDefault
    IN IF is_none(resp) /\ is_none(a[ind]) /\ is_none(a[fl]) THEN a
       ELSE [a EXCEPT
               ![ind] = Some(IF is_some(resp) THEN bits \cup {b} ELSE bits \ {b}),
               ![fl] = Some([recs EXCEPT ![b].v = resp])]

\* ack_field!(0, <field>): <field>() on the acknowledge a: the response of
\* the error bank, else the one of the warning bank
ack_field(a, b) ==
    IF is_some(BankResponse(a, "Error", b)) THEN BankResponse(a, "Error", b)
    ELSE BankResponse(a, "Warning", b)

AckResponses == {None} \cup {Some(<<r>>) : r \in AckRespVals}

\* Cif0AckManipulators::set_bandwidth
set_bandwidth(level, resp) ==
    AckBecomes(set_ack_field(command_payload, 29, level, resp))

\* Cif0AckManipulators::set_gain
set_gain(level, resp) ==
    AckBecomes(set_ack_field(command_payload, 23, level, resp))

NextAckField ==
    \/ \E mode \in AckCamInputs : set_cam(mode)
    \/ \E level \in AckLevels, resp \in AckResponses : set_bandwidth(level, resp)
    \/ \E level \in AckLevels, resp \in AckResponses : set_gain(level, resp)
    \/ update_packet_size
    \/ to_bytes
    \/ try_from

SpecAckField == InitAck /\ [][NextAckField]_vars

OtherLevel(level) == IF level = "Warning" THEN "Error" ELSE "Warning"

\* what a step of set_<field>(level, resp) for the field of bit b must do
SetFieldEffect(b, level, resp) ==
    LET a == command_payload
        n == command_payload'
        o == OtherLevel(level)
    IN /\ (b \in BankBits(n, level)) = is_some(resp)
       /\ BankResponse(n, level, b) = resp
       /\ is_some(resp) => ack_field(n, b) # None
       /\ n[BankIndicator(o)] = a[BankIndicator(o)]
       /\ n[BankFields(o)] = a[BankFields(o)]
       /\ BankBits(n, level) \ {b} = BankBits(a, level) \ {b}
       /\ \A c \in Cif0FieldBits \ {b} :
            BankResponse(n, level, c) = BankResponse(a, level, c)
       /\ \A f \in {"wif1", "wif2", "wif3", "wif7", "eif1", "eif2", "eif3", "eif7"} :
            n[f] = a[f]
       /\ UNCHANGED <<header, cam, message_id, controllee_id, controllee_uuid,
                      controller_id, controller_uuid>>

\* C12: set_<field>(level, Some(r)) stores r in the bank of level, sets the
\* indicator bit of the field in that bank, leaves the other bank and all
\* other fields unchanged and makes <field>() return Some;
\* set_<field>(level, None) clears the value and the indicator bit in that
\* bank only.
C12_SetFieldRoutes ==
    [][\A level \in AckLevels, resp \in AckResponses :
          /\ set_bandwidth(level, resp) => SetFieldEffect(29, level, resp)
          /\ set_gain(level, resp) => SetFieldEffect(23, level, resp)]_vars

\* both banks filled by the setters: an error for bandwidth, a warning for gain
C12_Witness ==
    /\ IsAckKind(command_payload.kind)
    /\ BankBits(command_payload, "Error") = {29}
    /\ BankBits(command_payload, "Warning") = {23}
    /\ is_some(BankResponse(command_payload, "Error", 29))
    /\ is_some(BankResponse(command_payload, "Warning", 23))
    /\ is_none(BankResponse(command_payload, "Warning", 29))

-----------------------------------------------------------------------------
(* Signal data payloads.  A byte slice is its first bytes (head) and the   *)
(* number of zero bytes after them (zeros); a Vec<u32> is its first words  *)
(* and the number of zero words after them (pad).                          *)

\* the values of a u16: size_words() returns "len as u16"
U16 == 65536

ByteVals == {1, 255}

\* the payload of scenario S1
S1Bytes == <<1, 2, 3, 4, 5, 6, 7, 8>>

ByteSeqs == UNION {[1..n -> ByteVals] : n \in 0..MaxBytes} \cup {S1Bytes}

\* no zero bytes, or as many as fill U16 words
ZeroRuns == {0, 4 * U16}

ByteInputs == {[head |-> h, zeros |-> z] : h \in ByteSeqs, z \in ZeroRuns}

ByteLen(b) == Len(b.head) + b.zeros

\* u32::from_le_bytes: the first byte is the least significant
from_le_bytes(c) ==
    UNION {{i + 8 * (k - 1) : i \in NatToBits(c[k])} : k \in 1..4}

\* u32::from_be_bytes: the first byte is the most significant
from_be_bytes(c) ==
    UNION {{i + 8 * (4 - k) : i \in NatToBits(c[k])} : k \in 1..4}

\* u32::to_be_bytes
to_be_bytes(w) ==
    [k \in 1..4 |-> BitsToNat({i - 8 * (4 - k) : i \in {j \in w : j \div 8 = 4 - k}})]

\* bytes.chunks(4) mapped through from_be_bytes, for a slice of whole chunks
PackWords(b) ==
    [words |-> [i \in 1..(Len(b.head) \div 4) |->
                   from_be_bytes(SubSeq(b.head, 4 * i - 3, 4 * i))],
     pad |-> b.zeros \div 4]

\* SignalData::new()
SignalDataNew == [kind |-> "SignalData", data |-> [words |-> <<>>, pad |-> 0]]

\* SignalData::payload()
payload(d) ==
    [head |-> Flatten([i \in 1..Len(d.words) |-> to_be_bytes(d.words[i])]),
     zeros |-> 4 * d.pad]

\* SignalData::size_words()
size_words(d) == (Len(d.words) + d.pad) % U16

\* SignalData::payload_size_bytes()
payload_size_bytes(d) == (Len(d.words) + d.pad) * 4

\* the packet type SignalDataStreamId
SignalDataType == {28}

\* PacketHeader::payload_size_words() of a packet with a stream ID and no
\* class ID, timestamps or trailer
payload_size_words(h) == packet_size(h) - 2

\* the header of a signal data packet with the payload d
SignalHeader(h, d) == set_packet_size(h, (1 + 1 + size_words(d)) % U16)

IsSignal == command_payload.kind = "SignalData"

\* the variables of a signal data packet; the command fields are not used
SignalState(p, h, d, r, w, q) ==
    <<p, h, {}, {}, None, None, None, None, d, r, w, q>>

\* Vrt::new_signal_data_packet()
new_signal_data_packet ==
    /\ pc' = "build"
    /\ header' = SignalHeader(SignalDataType, SignalDataNew.data)
    /\ cam' = {}
    /\ message_id' = {}
    /\ controllee_id' = None
    /\ controllee_uuid' = None
    /\ controller_id' = None
    /\ controller_uuid' = None
    /\ command_payload' = SignalDataNew
    /\ result' = "Ok"
    /\ wire' = <<>>
    /\ parsed' = NoParse

\* the payload becomes d with the result r, nothing else moves
SignalBecomes(d, r) ==
    /\ Mutable
    /\ IsSignal
    /\ pc' = "build"
    /\ command_payload' = d
    /\ result' = r
    /\ UNCHANGED <<header, cam, message_id, controllee_id, controllee_uuid,
                   controller_id, controller_uuid, wire, parsed>>

\* set_payload that keeps the leading whole words of an uneven slice
set_payload_partial(bytes) ==
    IF ByteLen(bytes) % 4 # 0
    THEN SignalBecomes([command_payload EXCEPT !.data =
                            PackWords([head |-> SubSeq(bytes.head, 1,
                                                   4 * (Len(bytes.head) \div 4)),
                                       zeros |-> bytes.zeros])],
                       "PayloadUneven32BitWords")
    ELSE SignalBecomes([command_payload EXCEPT !.data = PackWords(bytes)], "Ok")

\* SignalData::set_payload: a chunk shorter than 4 bytes is the error, and
\* the error returns before self.data is assigned
set_payload(bytes) ==
    IF ByteLen(bytes) % 4 # 0
    THEN SignalBecomes(command_payload, "PayloadUneven32BitWords")
    ELSE SignalBecomes([command_payload EXCEPT !.data = PackWords(bytes)], "Ok")

\* *packet.payload_mut() = Payload::SignalData(SignalData::from_bytes(bytes)?)
from_bytes(bytes) ==
    IF ByteLen(bytes) % 4 # 0
    THEN SignalBecomes(command_payload, "PayloadUneven32BitWords")
    ELSE SignalBecomes([SignalDataNew EXCEPT !.data = PackWords(bytes)], "Ok")

\* Vrt::update_packet_size() of a signal data packet
update_packet_size_signal ==
    /\ Mutable
    /\ IsSignal
    /\ pc' = "sized"
    /\ header' = SignalHeader(header, command_payload.data)
    /\ result' = "Ok"
    /\ UNCHANGED <<command, wire, parsed>>

\* Vrt::to_bytes() of a signal data packet: header, stream ID, the words;
\* payloads with a run of U16 zero words are not written out here
to_bytes_signal ==
    /\ pc \in {"build", "sized"}
    /\ IsSignal
    /\ command_payload.data.pad = 0
    /\ pc' = IF pc = "sized" THEN "sent" ELSE "sent_unsized"
    /\ wire' = <<header, {}>> \o command_payload.data.words
    /\ result' = "Ok"
    /\ UNCHANGED <<header, command, parsed>>

\* Vrt::try_from(&[u8]) of a signal data packet: data has
\* count = payload_size_words() words
ParseSignal(ws) ==
    IF Len(ws) < 2 \/ packet_size(ws[1]) < 2 \/ Len(ws) < packet_size(ws[1])
    THEN [outcome |-> "TruncatedPacket"]
    ELSE [outcome |-> "Ok", header |-> ws[1],
          payload |-> [kind |-> "SignalData",
                       data |-> [words |-> SubSeq(ws, 3, 2 + payload_size_words(ws[1])),
                                 pad |-> 0]]]

try_from_signal ==
    /\ pc \in {"sent", "sent_unsized"}
    /\ IsSignal
    /\ pc' = IF pc = "sent" THEN "parsed" ELSE "parsed_unsized"
    /\ LET r == ParseSignal(wire)
       IN parsed' = r /\ result' = r.outcome
    /\ UNCHANGED <<header, command, wire>>

InitSignal ==
    StateIs(SignalState("build", SignalHeader(SignalDataType, SignalDataNew.data),
                        SignalDataNew, "Ok", <<>>, NoParse))

NextSignal ==
    \/ new_signal_data_packet
    \/ \E b \in ByteInputs : set_payload(b)
    \/ \E b \in ByteInputs : from_bytes(b)
    \/ update_packet_size_signal
    \/ to_bytes_signal
    \/ try_from_signal

SpecSignal == InitSignal /\ [][NextSignal]_vars


\* C13: for every byte slice b whose length is a multiple of 4, the empty
\* one included, set_payload(b) succeeds and payload() then returns exactly
\* b, and so does the payload of SignalData::from_bytes(b).
C13_PayloadRoundTrip ==
    [][\A b \in ByteInputs :
          ByteLen(b) % 4 = 0
          => /\ set_payload(b)
                => result' = "Ok" /\ payload(command_payload'.data) = b
             /\ from_bytes(b)
                => result' = "Ok" /\ payload(command_payload'.data) = b]_vars

\* the bytes of S1 stored and read back
C13_Witness ==
    /\ IsSignal
    /\ result = "Ok"
    /\ command_payload.data.words = <<{24, 17, 9, 8, 2}, {26, 24, 18, 17, 10, 9, 8, 3}>>
    /\ payload(command_payload.data) = [head |-> S1Bytes, zeros |-> 0]

\* C14: set_payload(b) returns PayloadUneven32BitWords exactly when the
\* length of b is not a multiple of 4, and then the packet, the payload
\* stored before included, is unchanged.
C14_UnevenRejected ==
    [][\A b \in ByteInputs :
          set_payload(b)
          => /\ (result' = "PayloadUneven32BitWords") = (ByteLen(b) % 4 # 0)
             /\ ByteLen(b) % 4 # 0 => packet' = packet]_vars

\* an uneven slice was refused while a payload of one word is stored
C14_Witness ==
    /\ IsSignal
    /\ result = "PayloadUneven32BitWords"
    /\ Len(command_payload.data.words) = 1

\* C15: for every payload stored, size_words() is the number of payload
\* bytes divided by 4 and payload_size_bytes() is the number of payload
\* bytes, 4 * size_words(); a sized packet declares header, stream ID and
\* the payload words, and a decoded payload holds payload_size_words words.
C15_SizeIsLength ==
    /\ IsSignal
       => /\ size_words(command_payload.data)
               = ByteLen(payload(command_payload.data)) \div 4
          /\ payload_size_bytes(command_payload.data)
               = ByteLen(payload(command_payload.data))
          /\ payload_size_bytes(command_payload.data)
               = 4 * size_words(command_payload.data)
    /\ IsSignal /\ pc = "sent"
       => packet_size(header) = 2 + size_words(command_payload.data)
    /\ IsSignal /\ pc \in {"parsed", "parsed_unsized"} /\ parsed.outcome = "Ok"
       => Len(parsed.payload.data.words) = payload_size_words(parsed.header)

-----------------------------------------------------------------------------
(* The variant accessors of CommandPayload.                                *)

\* CommandPayload::control, control_mut
control(p) == IF p.kind = "Control" THEN "Ok" ELSE "ControlOnly"
control_mut(p) == IF p.kind = "Control" THEN "Ok" ELSE "ControlOnly"

\* CommandPayload::cancellation, cancellation_mut
cancellation(p) == IF p.kind = "Cancellation" THEN "Ok" ELSE "CancellationOnly"
cancellation_mut(p) == IF p.kind = "Cancellation" THEN "Ok" ELSE "CancellationOnly"

\* CommandPayload::validation_ack, validation_ack_mut
validation_ack(p) == IF p.kind = "ValidationAck" THEN "Ok" ELSE "ValidationAckOnly"
validation_ack_mut(p) ==
    IF p.kind = "ValidationAck" THEN "Ok" ELSE "ValidationAckOnly"

\* exec_ack_mut with the error of the validation accessor
exec_ack_mut_copied(p) == IF p.kind = "ExecAck" THEN "Ok" ELSE "ValidationAckOnly"

\* CommandPayload::exec_ack, exec_ack_mut
exec_ack(p) == IF p.kind = "ExecAck" THEN "Ok" ELSE "ExecAckOnly"
exec_ack_mut(p) == IF p.kind = "ExecAck" THEN "Ok" ELSE "ExecAckOnly"

\* CommandPayload::query_ack, query_ack_mut
query_ack(p) == IF p.kind = "QueryAck" THEN "Ok" ELSE "QueryAckOnly"
query_ack_mut(p) == IF p.kind = "QueryAck" THEN "Ok" ELSE "QueryAckOnly"

\* a call of an accessor: the Result is all that changes
Access(r) ==
    /\ Mutable
    /\ result' = r
    /\ UNCHANGED <<pc, header, command, wire, parsed>>

call_control == Access(control(command_payload))
call_control_mut == Access(control_mut(command_payload))
call_cancellation == Access(cancellation(command_payload))
call_cancellation_mut == Access(cancellation_mut(command_payload))
call_validation_ack == Access(validation_ack(command_payload))
call_validation_ack_mut == Access(validation_ack_mut(command_payload))
call_exec_ack == Access(exec_ack(command_payload))
call_exec_ack_mut == Access(exec_ack_mut(command_payload))
call_query_ack == Access(query_ack(command_payload))
call_query_ack_mut == Access(query_ack_mut(command_payload))

NextAccess ==
    \/ new_control_packet
    \/ new_cancellation_packet
    \/ new_validation_ack_packet
    \/ new_exec_ack_packet
    \/ new_query_ack_packet
    \/ \E m \in MsgIdVals : set_message_id(m)
    \/ \E mode \in CamInputs : set_cam(mode)
    \/ call_control
    \/ call_control_mut
    \/ call_cancellation
    \/ call_cancellation_mut
    \/ call_validation_ack
    \/ call_validation_ack_mut
    \/ call_exec_ack
    \/ call_exec_ack_mut
    \/ call_query_ack
    \/ call_query_ack_mut

SpecAccess == Init /\ [][NextAccess]_vars

\* a call whose Result is r is Ok exactly on the variant k, is the error e
\* on every other variant, and changes nothing of the packet
AccessorContract(call, k, e) ==
    call => /\ (result' = "Ok") = (command_payload.kind = k)
            /\ command_payload.kind # k => result' = e
            /\ packet' = packet

\* C16: each variant accessor of CommandPayload and its _mut form returns Ok
\* exactly when the payload is that variant and otherwise ControlOnly,
\* CancellationOnly, ValidationAckOnly, ExecAckOnly or QueryAckOnly; the two
\* forms agree and a failing accessor leaves the payload unchanged.
C16_AccessorsMatchVariant ==
    [][/\ AccessorContract(call_control, "Control", "ControlOnly")
       /\ AccessorContract(call_control_mut, "Control", "ControlOnly")
       /\ AccessorContract(call_cancellation, "Cancellation", "CancellationOnly")
       /\ AccessorContract(call_cancellation_mut, "Cancellation", "CancellationOnly")
       /\ AccessorContract(call_validation_ack, "ValidationAck", "ValidationAckOnly")
       /\ AccessorContract(call_validation_ack_mut, "ValidationAck",
                           "ValidationAckOnly")
       /\ AccessorContract(call_exec_ack, "ExecAck", "ExecAckOnly")
       /\ AccessorContract(call_exec_ack_mut, "ExecAck", "ExecAckOnly")
       /\ AccessorContract(call_query_ack, "QueryAck", "QueryAckOnly")
       /\ AccessorContract(call_query_ack_mut, "QueryAck", "QueryAckOnly")
       /\ control(command_payload) = control_mut(command_payload)
       /\ cancellation(command_payload) = cancellation_mut(command_payload)
       /\ validation_ack(command_payload) = validation_ack_mut(command_payload)
       /\ exec_ack(command_payload) = exec_ack_mut(command_payload)
       /\ query_ack(command_payload) = query_ack_mut(command_payload)]_vars

\* the exec accessor was refused on a validation acknowledge
C16_Witness ==
    /\ result = "ExecAckOnly"
    /\ command_payload.kind = "ValidationAck"

-----------------------------------------------------------------------------
(* The Command factories.                                                  *)

\* the command after the step has the payload p, message ID 0, no
\* identifier and exactly the ACK-kind bits given
FreshCommand(p, bits) ==
    /\ command_payload' = p
    /\ message_id' = {}
    /\ is_none(controllee_id') /\ is_none(controllee_uuid')
    /\ is_none(controller_id') /\ is_none(controller_uuid')
    /\ AckKindBits(cam') = bits

\* C17: new_control, new_cancellation, new_validation_ack, new_exec_ack and
\* new_query_ack each give the default payload of their variant, message
\* ID 0, no controllee or controller identifier of either form, and a CAM
\* with exactly the validation / execution / state bit for the three ACK
\* factories and none of the three for control and cancellation.
C17_FactoryDefaults ==
    [][/\ new_control_packet => FreshCommand(ControlDefault, {})
       /\ new_cancellation_packet => FreshCommand(CancellationDefault, {})
       /\ new_validation_ack_packet
          => FreshCommand(AckDefault("ValidationAck"), {20})
       /\ new_exec_ack_packet => FreshCommand(AckDefault("ExecAck"), {19})
       /\ new_query_ack_packet => FreshCommand(QueryAckDefault, {18})]_vars

\* a query acknowledge as its factory returns it
C17_Witness ==
    /\ command_payload = QueryAckDefault
    /\ state(cam) /\ ~validation(cam) /\ ~execution(cam)
    /\ message_id = {}
    /\ is_none(controllee_id) /\ is_none(controllee_uuid)
    /\ is_none(controller_id) /\ is_none(controller_uuid)
    /\ pc = "build"

-----------------------------------------------------------------------------
(* CIF0 payloads: the Cif0Manipulators of a Control payload and the        *)
(* warning bank of an acknowledge, with two data fields each.              *)

MaxField == 1

\* a control's payload_mut().control_mut()
ControlMutable == Mutable /\ command_payload.kind = "Control"

\* the control payload is replaced by p, nothing else moves
ControlBecomes(p) ==
    /\ ControlMutable
    /\ pc' = "build"
    /\ command_payload' = p
    /\ result' = "Ok"
    /\ UNCHANGED <<header, cam, message_id, controllee_id, controllee_uuid,
                   controller_id, controller_uuid, wire, parsed>>

\* *control.cif0_mut() = v
cif0_mut(v) == ControlBecomes([command_payload EXCEPT !.cif0 = v])

\* *control.cif0_fields_mut() = v
cif0_fields_mut(v) ==
    ControlBecomes([command_payload EXCEPT !.cif0_fields = v])

\* cif_basic!(cif0, <field>, ..): set_<field>(Option) stores the value and
\* sets or clears the indicator bit b
cif_basic(p, b, v) ==
    [p EXCEPT !.cif0 = IF is_some(v) THEN @ \cup {b} ELSE @ \ {b},
              !.cif0_fields[b].v = v]

\* a fixed-point conversion with 16 fractional bits
to_fixed_u16(hz) ==
    ToWords({i + 16 : i \in {k \in 0..30 : (hz \div (2 ^ k)) % 2 = 1}}, 2)

\* FixedU64::<U20>::from_num(hz).to_bits() as two big-endian words
to_fixed_u20(hz) ==
    ToWords({i + 20 : i \in {k \in 0..30 : (hz \div (2 ^ k)) % 2 = 1}}, 2)

\* Cif0Manipulators::set_reference_point_id
set_reference_point_id(v) ==
    ControlBecomes(cif_basic(command_payload, 30,
        IF is_some(v) THEN Some(<<NatToBits(v[1])>>) ELSE None))

\* Cif0Manipulators::set_bandwidth_hz
set_bandwidth_hz(v) ==
    ControlBecomes(cif_basic(command_payload, 29,
        IF is_some(v) THEN Some(to_fixed_u20(v[1])) ELSE None))

FieldVals == {None} \cup {Some(n) : n \in 1..MaxField}

\* Cif0 values over reference_point_id and bandwidth
Cif0Inputs == SUBSET {30, 29}

\* Cif0Fields values over reference_point_id and bandwidth
Cif0FieldsInputs ==
    {[FieldsDefault EXCEPT
        ![30].v = IF is_some(r) THEN Some(<<NatToBits(r[1])>>) ELSE None,
        ![29].v = IF is_some(w) THEN Some(to_fixed_u20(w[1])) ELSE None]
     : r \in FieldVals, w \in FieldVals}

\* Option<Cif0> values over bandwidth and gain for a bank's indicator word
BankIndicatorInputs == {None} \cup {Some(c) : c \in SUBSET {29, 23}}

\* Option<Cif0AckFields> values over bandwidth and gain, the two responses
\* differing
BankFieldsInputs ==
    {None} \cup
    {Some([FieldsDefault EXCEPT
            ![29].v = IF 29 \in c THEN Some(<<{31}>>) ELSE None,
            ![23].v = IF 23 \in c THEN Some(<<{30}>>) ELSE None])
     : c \in SUBSET {29, 23}}

\* the CAM on hand with and without warnings
WarningCamInputs == {AckKindBits(cam), AckKindBits(cam) \cup {17}}

InitCif ==
    \E t \in {Fresh(CommandType, new_control),
              Fresh(CommandType \cup {26}, new_exec_ack)} : StateIs(t)

NextCif ==
    \/ \E v \in Cif0Inputs : cif0_mut(v)
    \/ \E v \in Cif0FieldsInputs : cif0_fields_mut(v)
    \/ \E v \in FieldVals : set_reference_point_id(v)
    \/ \E v \in FieldVals : set_bandwidth_hz(v)
    \/ \E mode \in WarningCamInputs : set_cam(mode)
    \/ \E v \in BankIndicatorInputs : wif0_mut(v)
    \/ \E v \in BankFieldsInputs : wif0_fields_mut(v)
    \/ update_packet_size
    \/ to_bytes
    \/ try_from

SpecCif == InitCif /\ [][NextCif]_vars

\* words of a field's base value and attributes
FieldWords(x) == (IF is_some(x.v) THEN x.v[1] ELSE <<>>) \o Flatten(x.attrs)

\* the words of all fields of bit numbers above b, size[c] being the words
\* of the field of bit c
SizeAbove(size, b) ==
    LET s[c \in b..30] == IF c = 30 THEN 0 ELSE s[c + 1] + size[c + 1]
    IN s[b]

\* the field record on hand and the indicator word it goes with
CifRecord(p) ==
    IF p.kind = "Control" THEN p.cif0_fields
    ELSE IF is_some(p.wif0_fields) THEN p.wif0_fields[1] ELSE FieldsDefault
CifIndicator(p) ==
    IF p.kind = "Control" THEN p.cif0
    ELSE IF is_some(p.wif0) THEN p.wif0[1] ELSE {}
CifWidth(p) == IF p.kind = "Control" THEN Cif0Width ELSE AckWidth

\* the words of the wire that follow the indicator words of the payload p:
\* header, stream ID, CAM, message ID, then CIF0 or WIF0
FieldRegion(p, ws) ==
    LET skip == IF p.kind = "Control" THEN 5
                ELSE IF is_some(p.wif0) THEN 5 ELSE 4
    IN SubSeq(ws, skip + 1, Len(ws))

Sent == pc \in {"sent", "sent_unsized", "parsed", "parsed_unsized"}

\* each present field of the record written lies in the field region after
\* the words of all present fields of higher bit number
WrittenDescending ==
    LET f == CifRecord(command_payload)
        size == [c \in Cif0FieldBits |-> Len(FieldWords(f[c]))]
        region == FieldRegion(command_payload, wire)
    IN \A b \in Cif0FieldBits :
          is_some(f[b].v)
          => SubSeq(region, SizeAbove(size, b) + 1,
                    SizeAbove(size, b) + size[b]) = FieldWords(f[b])

\* each field of the record parsed holds the words of the field region
\* that follow those of all indicated fields of higher bit number
ParsedDescending ==
    LET q == parsed.command[7]
        f == CifRecord(q)
        ind == CifIndicator(q)
        w == CifWidth(q)
        size == [c \in Cif0FieldBits |-> IF c \in ind THEN w[c] ELSE 0]
        region == FieldRegion(q, wire)
    IN \A b \in ind \cap Cif0FieldBits :
          f[b].v = Some(SubSeq(region, SizeAbove(size, b) + 1,
                               SizeAbove(size, b) + size[b]))

\* C18: the CIF0 data fields are written and parsed in descending order of
\* their indicator bits, for Cif0Fields and for Cif0AckFields: of two present
\* fields the one of the higher bit comes first on the wire, and the parser
\* assigns the words to the indicated fields in the same order.
C18_DescendingOrder ==
    /\ Sent => WrittenDescending
    /\ (pc \in {"parsed", "parsed_unsized"} /\ result = "Ok") => ParsedDescending

\* a control with reference_point_id and bandwidth sent and parsed back
C18_Witness ==
    /\ pc = "parsed"
    /\ result = "Ok"
    /\ command_payload.kind = "Control"
    /\ command_payload.cif0 = {30, 29}
    /\ is_some(command_payload.cif0_fields[30].v)
    /\ is_some(command_payload.cif0_fields[29].v)
    /\ parsed.command[7] = command_payload

-----------------------------------------------------------------------------
(* Indicator bits against field values.                                    *)

\* in the payload p with CIF0 and CIF0 fields, each data-field bit is set
\* exactly when the field's value is Some
IndicatorMatchesFields(p) ==
    \A b \in Cif0FieldBits : (b \in p.cif0) <=> is_some(p.cif0_fields[b].v)

\* the control payload a successful parse returned
DecodedControl ==
    /\ pc \in {"parsed", "parsed_unsized"}
    /\ parsed.outcome = "Ok"
    /\ parsed.command[7].kind = "Control"

\* C19: in every control payload reached through set_<field>(Option),
\* cif0_mut() and cif0_fields_mut(), and in every decoded control payload,
\* for every CIF0 bit from 30 down to 8 the indicator bit is set if and only
\* if the value of the field it names is Some.
C19_IndicatorIffField ==
    /\ command_payload.kind = "Control"
       => IndicatorMatchesFields(command_payload)
    /\ DecodedControl => IndicatorMatchesFields(parsed.command[7])

\* the field record of p with the fields kept whose indicator bit is set
IndicatedFields(p) ==
    [b \in Cif0FieldBits |->
        IF b \in p.cif0 THEN p.cif0_fields[b] ELSE FieldDefault]

\* every indicator bit of a data field set in p has a value behind it
IndicatedPresent(p) ==
    \A b \in p.cif0 \cap Cif0FieldBits : is_some(p.cif0_fields[b].v)

\* C20: when a control payload is encoded whose set indicator bits all have
\* a value, the words after CIF0 are exactly the data fields whose indicator
\* bit is set (a value left behind a cleared bit is not written), and
\* decoding the sized packet succeeds, consuming every word.
C20_OnlyIndicatedWritten ==
    (command_payload.kind = "Control" /\ IndicatedPresent(command_payload))
    => /\ Sent => FieldRegion(command_payload, wire)
                  = WriteFields(IndicatedFields(command_payload))
       /\ pc = "parsed" => result = "Ok"

-----------------------------------------------------------------------------
(* CIF7 field attributes of a control payload.                             *)

MaxAttrs == 2

\* control.cif7 = v
set_cif7(v) == ControlBecomes([command_payload EXCEPT !.cif7 = v])

\* cif_radix!: set_<field>_attributes(Option<Vec<f64>>) stores the converted
\* entries, None an empty vector
set_bandwidth_hz_attributes(v) ==
    ControlBecomes([command_payload EXCEPT !.cif0_fields[29].attrs =
        IF is_some(v) THEN [i \in 1..Len(v[1]) |-> to_fixed_u20(v[1][i])]
        ELSE <<>>])

\* Cif0 values over bandwidth and field_attributes_enabled
AttrCif0Inputs == SUBSET {29, 7}

\* Option<Cif7> values: current (31), average (30), median (29)
AttrCif7Inputs ==
    {None, Some({}), Some({31}), Some({30}), Some({31, 30}), Some({31, 30, 29})}

\* Option<Vec<f64>> arguments: n entries 1, 2, ..
AttrVecInputs == {None} \cup {Some([i \in 1..n |-> i]) : n \in 1..MaxAttrs}

\* Cif0Fields values over bandwidth and bandwidth_attributes
AttrFieldsInputs ==
    {[FieldsDefault EXCEPT
        ![29] = [v |-> IF is_some(w) THEN Some(to_fixed_u20(w[1])) ELSE None,
                 attrs |-> [i \in 1..n |-> to_fixed_u20(i)]]]
     : w \in FieldVals, n \in 0..MaxAttrs}

NextCif7 ==
    \/ \E v \in AttrCif0Inputs : cif0_mut(v)
    \/ \E v \in AttrCif7Inputs : set_cif7(v)
    \/ \E v \in AttrFieldsInputs : cif0_fields_mut(v)
    \/ \E v \in FieldVals : set_bandwidth_hz(v)
    \/ \E v \in AttrVecInputs : set_bandwidth_hz_attributes(v)
    \/ update_packet_size
    \/ to_bytes
    \/ try_from

\* Vrt::new_control_packet()
InitControl == StateIs(Fresh(CommandType, new_control))

SpecCif7 == InitControl /\ [][NextCif7]_vars

\* CIF7 is enabled in the payload p: the CIF0 bit and the CIF7 word
Cif7Enabled(p) == field_attributes_enabled(p.cif0) /\ is_some(p.cif7)

\* the number of CIF7 bits of p other than the current bit, 0 without CIF7
AttrCount(p) == IF Cif7Enabled(p) THEN Cardinality(p.cif7[1] \ {31}) ELSE 0

\* the base value of a field of p has its slot: no CIF7, or the current bit
BaseSlot(p) == Cif7Enabled(p) => 31 \in p.cif7[1]

\* the words of the wire after CIF0 and CIF7 of the control payload p
DataRegion(p, ws) ==
    SubSeq(ws, (IF is_some(p.cif7) THEN 7 ELSE 6), Len(ws))

\* the control payload p has CIF7 exactly when CIF0 enables it
Cif7Chained(p) == field_attributes_enabled(p.cif0) <=> is_some(p.cif7)

\* C21: when CIF7 is enabled, every field whose indicator bit is set is
\* followed on the wire, right after its base slot, by exactly N attribute
\* entries of its type, N the number of set CIF7 bits other than current;
\* without CIF7, or with N = 0, no attribute entry is written or read.
C21_AttributesFollowField ==
    /\ (Sent /\ command_payload.kind = "Control"
        /\ Cif7Chained(command_payload) /\ bandwidth(command_payload.cif0))
       => LET p == command_payload
              f == p.cif0_fields[29]
              base == IF is_some(f.v) THEN 2 ELSE 0
              region == DataRegion(p, wire)
          IN /\ Len(region) = base + 2 * AttrCount(p)
             /\ Len(f.attrs) = AttrCount(p)
             /\ \A i \in 1..Len(f.attrs) :
                   SubSeq(region, base + 2 * i - 1, base + 2 * i) = f.attrs[i]
    /\ DecodedControl
       => \A b \in parsed.command[7].cif0 \cap Cif0FieldBits :
             Len(parsed.command[7].cif0_fields[b].attrs)
             = AttrCount(parsed.command[7])

\* C28: with CIF7 enabled, the base value a field holds whose indicator bit
\* is set is in its main slot on the wire if and only if the CIF7 current bit is
\* set, and attribute entries follow if and only if a CIF7 bit other than
\* current is set; the current bit adds no attribute entry.
C28_CurrentBitGovernsBase ==
    /\ (Sent /\ command_payload.kind = "Control"
        /\ Cif7Enabled(command_payload) /\ bandwidth(command_payload.cif0)
        /\ is_some(command_payload.cif0_fields[29].v)
        /\ Len(command_payload.cif0_fields[29].attrs) = AttrCount(command_payload))
       => Len(DataRegion(command_payload, wire))
          = (IF BaseSlot(command_payload) THEN 2 ELSE 0)
            + 2 * AttrCount(command_payload)
    /\ (DecodedControl /\ Cif7Enabled(parsed.command[7]))
       => \A b \in parsed.command[7].cif0 \cap Cif0FieldBits :
             LET x == parsed.command[7].cif0_fields[b]
             IN /\ is_some(x.v) <=> BaseSlot(parsed.command[7])
                /\ (x.attrs # <<>>) <=> (parsed.command[7].cif7[1] \ {31} # {})

-----------------------------------------------------------------------------
(* The size of a field record against the words it is written as.          *)

\* GpsAscii values: the OUI word, the word count, the ASCII words
GpsAsciiVals == {<<{}, {}>>, <<{}, {0}, {30, 22, 14, 6}>>}

\* Vec<GpsAscii> values of up to two entries
GpsAsciiVecs ==
    {<<>>} \cup {<<g>> : g \in GpsAsciiVals}
    \cup {<<g, h>> : g \in GpsAsciiVals, h \in GpsAsciiVals}

\* Cif0Fields values over bandwidth, bandwidth_attributes and
\* gps_ascii_attributes
SizeFieldsInputs ==
    {[FieldsDefault EXCEPT
        ![29] = [v |-> w, attrs |-> [i \in 1..n |-> to_fixed_u20(i)]],
        ![9] = [v |-> None, attrs |-> gs]]
     : w \in {None, Some(to_fixed_u20(1))}, n \in 0..1, gs \in GpsAsciiVecs}

\* Cif0 values over bandwidth, gps_ascii and field_attributes_enabled
SizeCif0Inputs == {{}, {29}, {29, 9, 7}}

NextSize ==
    \/ \E v \in SizeCif0Inputs : cif0_mut(v)
    \/ \E v \in SizeFieldsInputs : cif0_fields_mut(v)
    \/ \E v \in {None, Some({31, 30})} : set_cif7(v)
    \/ update_packet_size
    \/ to_bytes

SpecSize == InitControl /\ [][NextSize]_vars

\* C22: size_words() of a field record is the number of 32-bit words the
\* record is written as, the width of each present base value and of every
\* entry of every attribute vector, entries of different size included, and
\* the packet size update_packet_size stores is the number of words sent.
C22_FieldsSizeIsWritten ==
    (Sent /\ command_payload.kind = "Control")
    => /\ FieldsSizeWords(command_payload.cif0_fields)
          = Len(WriteFields(command_payload.cif0_fields))
       /\ pc = "sent" => packet_size(header) = Len(wire)

-----------------------------------------------------------------------------
(* Received control packets decoded and encoded again.                     *)

\* Cif0 words of a received control: context_field_changed (31),
\* reference_point_id (30) and the reserved bits 6, 5, 4 and 0
ReservedBits == {6, 5, 4, 0}
ReceivedCif0 == SUBSET ({31, 30} \cup ReservedBits)

\* a control packet as received: header, stream ID, CAM, message ID, CIF0
\* and n further words
ControlBuffers ==
    {<<set_packet_size(CommandType, n + 5), {}, {}, {}, c>> \o Zeros(n)
     : c \in ReceivedCif0, n \in 0..1}

InitReceived ==
    \E b \in ControlBuffers :
        StateIs(<<"sent", b[1], b[3], b[4], None, None, None, None,
                  ControlDefault, "Ok", b, NoParse>>)

\* Vrt::to_bytes() of the packet try_from returned
reencode ==
    /\ pc = "parsed"
    /\ parsed.outcome = "Ok"
    /\ pc' = "reencoded"
    /\ result' = WriteVrt(parsed.header, parsed.command)
    /\ UNCHANGED <<header, command, wire, parsed>>

NextReceived == try_from \/ reencode

SpecReceived == InitReceived /\ [][NextReceived]_vars

\* C23: a CIF0 word decoded and encoded again is the same 32-bit value, the
\* reserved bits 0 and 4 to 6 included, and no data field is parsed or
\* written for a reserved bit: the fields are those of the bits 30 to 8.
C23_ReservedBitsKept ==
    pc = "reencoded"
    => /\ parsed.command[7].cif0 = wire[5]
       /\ result[5] = wire[5]
       /\ result = wire
       /\ \A b \in Cif0FieldBits :
             is_some(parsed.command[7].cif0_fields[b].v) <=> b \in wire[5]
       /\ Len(wire) = 5 + (IF 30 \in wire[5] THEN 1 ELSE 0)

\* a control with all reserved bits and reference_point_id, encoded again
C23_Witness ==
    /\ pc = "reencoded"
    /\ ReservedBits \cup {30} \subseteq wire[5]
    /\ Len(result) = 6

-----------------------------------------------------------------------------
(* The radix-encoded frequency fields of a control payload.                *)

\* the bandwidth of scenario S2, in Hz
S2Hz == 8000000

\* whole-Hz arguments: below and above 2^12, where the product with 2^20
\* passes into the upper word
HzVals == {1, 4097, S2Hz}
HzInputs == {None} \cup {Some(v) : v \in HzVals}

\* FixedU64::<U20>::from_bits(stored).to_num::<f64>() of a whole-Hz value
from_fixed_u20(ws) ==
    BitsToNat(ws[1]) * 4096 + BitsToNat({i - 20 : i \in {k \in ws[2] : k >= 20}})

\* cif_radix!: <field>_hz() on the payload p for the field of bit b
cif_radix_get(p, b) ==
    IF is_some(p.cif0_fields[b].v)
    THEN Some(from_fixed_u20(p.cif0_fields[b].v[1])) ELSE None

bandwidth_hz(p) == cif_radix_get(p, 29)
rf_ref_freq_hz(p) == cif_radix_get(p, 27)
sample_rate_sps(p) == cif_radix_get(p, 21)

\* Cif0Manipulators::set_rf_ref_freq_hz
set_rf_ref_freq_hz(v) ==
    ControlBecomes(cif_basic(command_payload, 27,
        IF is_some(v) THEN Some(to_fixed_u20(v[1])) ELSE None))

\* Cif0Manipulators::set_sample_rate_sps
set_sample_rate_sps(v) ==
    ControlBecomes(cif_basic(command_payload, 21,
        IF is_some(v) THEN Some(to_fixed_u20(v[1])) ELSE None))

NextRadix ==
    \/ \E v \in HzInputs : set_bandwidth_hz(v)
    \/ \E v \in HzInputs : set_rf_ref_freq_hz(v)
    \/ \E v \in HzInputs : set_sample_rate_sps(v)
    \/ update_packet_size
    \/ to_bytes
    \/ try_from

SpecRadix == InitControl /\ [][NextRadix]_vars

\* the 64-bit word ws is v * 2^20: the upper word is v / 2^12, the lower
\* word is (v mod 2^12) * 2^20
IsTimes2Pow20(ws, v) ==
    /\ Len(ws) = 2
    /\ BitsToNat(ws[1]) = v \div 4096
    /\ \A i \in ws[2] : i >= 20
    /\ BitsToNat({i - 20 : i \in ws[2]}) = v % 4096

\* after the step, the field of bit b of the control holds v as set_X(v)
\* leaves it
RadixSet(b, v) ==
    LET p == command_payload'
    IN IF is_some(v)
       THEN /\ b \in p.cif0
            /\ is_some(p.cif0_fields[b].v)
            /\ IsTimes2Pow20(p.cif0_fields[b].v[1], v[1])
            /\ cif_radix_get(p, b) = v
       ELSE /\ b \notin p.cif0
            /\ is_none(p.cif0_fields[b].v)
            /\ cif_radix_get(p, b) = None

\* C24: set_bandwidth_hz(Some(v)) of a whole-Hz value sets CIF0 bit 29 and
\* stores the 64-bit word v * 2^20, and bandwidth_hz() then returns Some(v);
\* rf_ref_freq_hz (bit 27) and sample_rate_sps (bit 21) are encoded the same
\* way; set_X(None) clears the value and the bit.
C24_RadixEncoding ==
    [][\A v \in HzInputs :
          /\ set_bandwidth_hz(v)
             => RadixSet(29, v) /\ bandwidth_hz(command_payload') = v
          /\ set_rf_ref_freq_hz(v)
             => RadixSet(27, v) /\ rf_ref_freq_hz(command_payload') = v
          /\ set_sample_rate_sps(v)
             => RadixSet(21, v) /\ sample_rate_sps(command_payload') = v]_vars

\* a control with the bandwidth of S2 set, sent and parsed back
C24_Witness ==
    /\ command_payload.kind = "Control"
    /\ command_payload.cif0 = {29}
    /\ bandwidth_hz(command_payload) = Some(S2Hz)
    /\ command_payload.cif0_fields[29].v = Some(<<{10, 9, 8, 7, 5, 0}, {29}>>)
    /\ pc = "parsed"
    /\ parsed.command[7] = command_payload

-----------------------------------------------------------------------------
(* Received acknowledge packets.                                           *)

\* WIF0 and EIF0 words: bandwidth or gain with chain bits
ReceivedWif0 == {{}, {29}, {29, 7}, {3, 2, 1}, {29, 7, 3, 2, 1}}
ReceivedEif0 == {{}, {23}, {23, 7, 2}}

\* the indicator words of a bank with the indicator i0 and the CIF7 word c7:
\* CIF0, a zero word for each of CIF1, CIF2, CIF3 enabled, CIF7
BankWords(i0, c7) ==
    <<i0>> \o Zeros(Cardinality(i0 \cap {3, 2, 1}))
    \o (IF 7 \in i0 THEN <<c7>> ELSE <<>>)

\* an acknowledge as received: header, stream ID, CAM, message ID, the
\* warning indicator words, the error indicator words, the warning response
\* of bandwidth, the error response of gain with one attribute under EIF7
AckBuffer(k, warn, err, w0, e0) ==
    LET c == {k} \cup (IF warn THEN {17} ELSE {}) \cup (IF err THEN {16} ELSE {})
        body == (IF warn THEN BankWords(w0, {31}) ELSE <<>>)
                \o (IF err THEN BankWords(e0, {31, 30}) ELSE <<>>)
                \o (IF warn /\ 29 \in w0 THEN <<{31}>> ELSE <<>>)
                \o (IF err /\ 23 \in e0
                    THEN <<{30}>> \o (IF 7 \in e0 THEN <<{28}>> ELSE <<>>)
                    ELSE <<>>)
    IN <<set_packet_size(CommandType \cup {26}, Len(body) + 4), {}, c, {}>>
       \o body

\* acknowledges in the layout above, and acknowledges of zero words
AckBuffers ==
    {AckBuffer(k, warn, err, w0, e0) :
        k \in {20, 19}, warn \in BOOLEAN, err \in BOOLEAN,
        w0 \in ReceivedWif0, e0 \in ReceivedEif0}
    \cup {Buffer({26}, {19} \cup c, n) : c \in SUBSET {17, 16}, n \in 0..MaxTail}

InitAckReceived ==
    \E b \in AckBuffers :
        StateIs(<<"sent", b[1], b[3], b[4], None, None, None, None,
                  ControlDefault, "Ok", b, NoParse>>)

SpecAckReceived == InitAckReceived /\ [][NextReceived]_vars

\* the acknowledge payload a successful parse returned
DecodedAck ==
    /\ pc \in {"parsed", "reencoded"}
    /\ parsed.outcome = "Ok"
    /\ IsAckKind(parsed.command[7].kind)

\* the number of indicator words of a bank whose CIF0 is the word at
\* position i of the wire
BankLen(i) == 1 + Cardinality(wire[i] \cap {7, 3, 2, 1})

\* C25: an acknowledge payload lies on the wire as WIF0, WIF1, WIF2, WIF3,
\* WIF7, then EIF0, EIF1, EIF2, EIF3, EIF7, each only if present, then the
\* warning field records, then the error field records; the decoder takes
\* the words in this order and the encoder writes them back in it, no field
\* record before an indicator word.
C25_AckLayout ==
    /\ DecodedAck
       => LET a == parsed.command[7]
              warn == 17 \in wire[3]
              err == 16 \in wire[3]
              nW == IF warn THEN BankLen(5) ELSE 0
              nE == IF err THEN BankLen(5 + nW) ELSE 0
              fW == IF warn /\ 29 \in wire[5] THEN 1 ELSE 0
          IN /\ warn => a.wif0 = Some(wire[5])
             /\ (warn /\ 7 \in wire[5]) => a.wif7 = Some(wire[4 + nW])
             /\ err => a.eif0 = Some(wire[5 + nW])
             /\ (err /\ 7 \in wire[5 + nW]) => a.eif7 = Some(wire[4 + nW + nE])
             /\ (warn /\ 29 \in wire[5])
                => a.wif0_fields[1][29].v = Some(<<wire[5 + nW + nE]>>)
             /\ (err /\ 23 \in wire[5 + nW])
                => a.eif0_fields[1][23].v = Some(<<wire[5 + nW + nE + fW]>>)
    /\ pc = "reencoded" => result = wire

\* an acknowledge with both banks, WIF1 to WIF3, WIF7 and EIF7 and a response
\* in each bank, decoded and encoded again
C25_Witness ==
    /\ pc = "reencoded"
    /\ {17, 16} \subseteq wire[3]
    /\ wire[5] = {29, 7, 3, 2, 1}
    /\ wire[10] = {23, 7, 2}
    /\ is_some(parsed.command[7].wif0_fields[1][29].v)
    /\ Len(parsed.command[7].eif0_fields[1][23].attrs) = 1

\* the indicator word ind is present exactly when the bank is enabled in the
\* CAM and the CIF0 of the bank has the chain bit
ChainedIff(ind, enabled, i0, bit) ==
    is_some(ind) <=> (enabled /\ is_some(i0) /\ bit \in i0[1])

\* C26: in a decoded acknowledge, WIF1, WIF2, WIF3 and WIF7 are present if
\* and only if CAM.warning is set and WIF0 has the chain bit 1, 2, 3 or 7,
\* and the field record of WIFn, n from 0 to 3, is present if and only if
\* WIFn is; the same for EIFn with CAM.error and EIF0.
C26_ChainedIndicators ==
    DecodedAck
    => LET a == parsed.command[7]
           c == parsed.command[1]
       IN /\ ChainedIff(a.wif1, warning(c), a.wif0, 1)
          /\ ChainedIff(a.wif2, warning(c), a.wif0, 2)
          /\ ChainedIff(a.wif3, warning(c), a.wif0, 3)
          /\ ChainedIff(a.wif7, warning(c), a.wif0, 7)
          /\ ChainedIff(a.eif1, error(c), a.eif0, 1)
          /\ ChainedIff(a.eif2, error(c), a.eif0, 2)
          /\ ChainedIff(a.eif3, error(c), a.eif0, 3)
          /\ ChainedIff(a.eif7, error(c), a.eif0, 7)
          /\ is_some(a.wif0_fields) <=> is_some(a.wif0)
          /\ is_some(a.wif1_fields) <=> is_some(a.wif1)
          /\ is_some(a.wif2_fields) <=> is_some(a.wif2)
          /\ is_some(a.wif3_fields) <=> is_some(a.wif3)
          /\ is_some(a.eif0_fields) <=> is_some(a.eif0)
          /\ is_some(a.eif1_fields) <=> is_some(a.eif1)
          /\ is_some(a.eif2_fields) <=> is_some(a.eif2)
          /\ is_some(a.eif3_fields) <=> is_some(a.eif3)

\* a decoded acknowledge with both banks: WIF1 chained by WIF0, EIF2 chained
\* by EIF0, EIF1 not
C26_Witness ==
    /\ DecodedAck
    /\ Len(wire) >= 10
    /\ wire[5] = {29, 7, 3, 2, 1}
    /\ wire[10] = {23, 7, 2}
    /\ {17, 16} \subseteq wire[3]
    /\ is_some(parsed.command[7].eif2)
    /\ is_none(parsed.command[7].eif1)
    /\ is_some(parsed.command[7].wif1)

-----------------------------------------------------------------------------
(* The UDP receive loop of examples/udp_recv.rs.  pc is the position in    *)
(* the loop, wire the datagram received, parsed the packet parsed from it, *)
(* header and command the reply, result what was sent last.                *)

\* datagrams: command packets with stream ID 0 or 1, with or without the
\* ACK indicator, any ACK-kind bits in the CAM, with and without a word
\* after the message ID, and a signal data packet with a stream ID
Datagrams ==
    {[Buffer(ind, c, n) EXCEPT ![2] = sid] :
        sid \in {{}, {0}}, ind \in {{}, {26}}, c \in SUBSET {20, 19, 18},
        n \in 0..1}
    \cup {<<set_packet_size(SignalDataType, 2), {}>>}

IsCommandHeader(h) == h \cap {31, 30, 29, 28} = CommandType

InitLoop ==
    StateIs(<<"recv", {}, {}, {}, None, None, None, None, ControlDefault,
              "none", <<>>, NoParse>>)

\* socket.recv_from(&mut buf)?: a datagram, or an error that ends main
recv_from(d) ==
    /\ pc = "recv"
    /\ pc' = "received"
    /\ wire' = d
    /\ UNCHANGED <<header, command, result, parsed>>

recv_failed ==
    /\ pc = "recv"
    /\ pc' = "exited"
    /\ result' = "Err"
    /\ UNCHANGED <<header, command, wire, parsed>>

\* Vrt::try_from(&buf[..bytes_read])?: an error ends main, a panic the
\* process
try_from_datagram ==
    /\ pc = "received"
    /\ LET r == IF IsCommandHeader(wire[1]) THEN ParseVrt(wire)
                ELSE ParseSignal(wire)
       IN /\ parsed' = r
          /\ result' = r.outcome
          /\ pc' = IF r.outcome = "Ok" THEN "matched"
                   ELSE IF r.outcome = "panic" THEN "panicked" ELSE "exited"
    /\ UNCHANGED <<header, command, wire>>

\* the factory the loop picks for its reply, by the CAM of the command
ReplyFactory(c) ==
    IF execution(c) THEN Some(new_exec_ack)
    ELSE IF validation(c) THEN Some(new_validation_ack)
    ELSE IF state(c) THEN Some(new_query_ack)
    ELSE None

\* the match on the packet type: a command is answered and the loop goes
\* on, with sent telling whether socket.send_to returned Ok; any type but
\* SignalData, Context and Command is unimplemented!()
respond(sent) ==
    /\ pc = "matched"
    /\ IF ~IsCommandHeader(parsed.header)
       THEN /\ pc' = "panicked"
            /\ result' = "unimplemented"
            /\ UNCHANGED <<header, command>>
       ELSE LET f == ReplyFactory(parsed.command[1])
            IN IF is_none(f)
               THEN /\ pc' = "recv"
                    /\ result' = "none"
                    /\ UNCHANGED <<header, command>>
               ELSE LET t == Fresh(CommandType \cup {26}, f[1])
                    IN /\ header' = t[2]
                       /\ cam' = t[3]
                       /\ message_id' = t[4]
                       /\ controllee_id' = t[5]
                       /\ controllee_uuid' = t[6]
                       /\ controller_id' = t[7]
                       /\ controller_uuid' = t[8]
                       /\ command_payload' = t[9]
                       /\ IF sent
                          THEN /\ pc' = "recv"
                               /\ result' = <<t[2], wire[2]>>
                                     \o WriteCommand(<<t[3], t[4], t[5], t[6],
                                                       t[7], t[8], t[9]>>)
                          ELSE /\ pc' = "panicked"
                               /\ result' = "send_to failed"
    /\ UNCHANGED <<wire, parsed>>

NextLoop ==
    \/ \E d \in Datagrams : recv_from(d)
    \/ recv_failed
    \/ try_from_datagram
    \/ \E sent \in BOOLEAN : respond(sent)

SpecLoop == InitLoop /\ [][NextLoop]_vars

\* the acknowledge the CAM c asks for, "none" without an ACK-kind bit
RequestedAck(c) ==
    IF execution(c) THEN "ExecAck"
    ELSE IF validation(c) THEN "ValidationAck"
    ELSE IF state(c) THEN "QueryAck"
    ELSE "none"

\* C29: for each command packet received, the loop sends at most one reply:
\* an ExecAck if CAM.execution is set, else a ValidationAck if CAM.validation
\* is set, else a QueryAck if CAM.state is set, else nothing; the reply has
\* the stream ID of the command and a packet size that is its length; the
\* loop then goes on to the next datagram.
C29_OneReplyPerCommand ==
    [][(pc = "matched" /\ IsCommandHeader(parsed.header))
       => /\ pc' = "recv"
          /\ IF RequestedAck(parsed.command[1]) = "none"
             THEN result' = "none"
             ELSE /\ result'[2] = wire[2]
                  /\ is_ack_packet(result'[1])
                  /\ packet_size(result'[1]) = Len(result')
                  /\ ParseVrt(result').outcome = "Ok"
                  /\ ParseVrt(result').command[7].kind
                     = RequestedAck(parsed.command[1])]_vars

-----------------------------------------------------------------------------
(* The Python client of pyo3_demo: header and command are the control      *)
(* packet built, wire the bytes sent, parsed the response, result what     *)
(* send_cmd returns.                                                       *)

\* the CAM of create_control_message: action mode Execute, warnings and
\* partial packets permitted, warning, error and execution requested
DemoCam == {27, 26, 24, 19, 17, 16}

\* integer and fractional timestamp words at the time of the call
TimestampVals == {<<{0}, {}, {}>>, <<{1}, {}, {3}>>}

\* create_control_message(stream_id, bandwidth_hz, tune_freq_hz): the
\* command of the packet returned
create_control_message(bandwidth_hz_arg, tune_freq_hz) ==
    LET c == new_control
        f == cif_basic(
                 cif_basic(c[7], 27,
                     IF is_some(tune_freq_hz) THEN Some(to_fixed_u20(tune_freq_hz[1]))
                     ELSE None),
                 29,
                 IF is_some(bandwidth_hz_arg) THEN Some(to_fixed_u20(bandwidth_hz_arg[1]))
                 ELSE None)
    IN <<DemoCam, c[2], c[3], c[4], c[5], c[6], f>>

\* responses the socket may hold: an ExecAck, an ExecAck with the error bank,
\* a ValidationAck, a QueryAck, an ACK without kind, an ExecAck with a word
\* too many
Responses ==
    {Buffer({26}, {19}, 0), Buffer({26}, {19, 16}, 1), Buffer({26}, {20}, 0),
     Buffer({26}, {18}, 1), Buffer({26}, {}, 0), Buffer({26}, {19}, 1)}

\* what send_cmd returns for the response r, None a receive that timed out
AckResult(r) ==
    IF is_none(r) THEN "Err recv"
    ELSE LET q == ParseVrt(r[1])
         IN IF q.outcome # "Ok" THEN "panic"
            ELSE IF q.command[7].kind = "ExecAck"
            THEN IF error(q.command[1]) THEN "VrtAck not ok" ELSE "VrtAck ok"
            ELSE "Err invalid ack type"

\* VrtClient::send_cmd(rf_ref_freq_hz, bandwidth_hz) at the time ts, sent
\* telling whether socket.send_to returned Ok, r the response
send_cmd(rf_ref_freq, bandwidth_arg, ts, sent, r) ==
    \E c \in {create_control_message(rf_ref_freq, bandwidth_arg)} :
    \E h \in {set_packet_size(CommandType \cup {22, 21}, VrtSizeWords(c) + 3)} :
    \E a \in {AckResult(r)} :
       /\ pc = "idle"
       /\ header' = h
       /\ cam' = c[1]
       /\ message_id' = c[2]
       /\ controllee_id' = c[3]
       /\ controllee_uuid' = c[4]
       /\ controller_id' = c[5]
       /\ controller_uuid' = c[6]
       /\ command_payload' = c[7]
       /\ wire' = <<h, {}>> \o ts \o WriteCommand(c)
       /\ IF ~sent
          THEN pc' = "idle" /\ result' = "Err send" /\ parsed' = NoParse
          ELSE /\ parsed' = IF is_some(r) THEN ParseVrt(r[1]) ELSE NoParse
               /\ result' = a
               /\ pc' = IF a = "panic" THEN "panicked" ELSE "idle"

InitClient ==
    StateIs(<<"idle", {}, {}, {}, None, None, None, None, ControlDefault,
              "none", <<>>, NoParse>>)

NextClient ==
    \E rf \in HzInputs, bw \in HzInputs, ts \in TimestampVals,
       sent \in BOOLEAN, r \in {None} \cup {Some(d) : d \in Responses} :
        send_cmd(rf, bw, ts, sent, r)

SpecClient == InitClient /\ [][NextClient]_vars

\* C30: send_cmd(rf_ref_freq_hz, bandwidth_hz) sends a control packet whose
\* RF reference frequency is rf_ref_freq_hz and whose bandwidth is
\* bandwidth_hz, each field absent exactly when the argument is None, with a
\* CAM that asks for execution.
C30_SendCmdFields ==
    [][\A rf \in HzInputs, bw \in HzInputs :
          (\E ts \in TimestampVals, sent \in BOOLEAN,
              r \in {None} \cup {Some(d) : d \in Responses} :
                send_cmd(rf, bw, ts, sent, r))
          => /\ command_payload'.kind = "Control"
             /\ rf_ref_freq_hz(command_payload') = rf
             /\ bandwidth_hz(command_payload') = bw
             /\ (27 \in command_payload'.cif0) <=> is_some(rf)
             /\ (29 \in command_payload'.cif0) <=> is_some(bw)
             /\ execution(cam')]_vars

-----------------------------------------------------------------------------
(* The CAM identifier bits against the identifier fields of a command.     *)

\* C27: after any sequence of set_cam and identifier setter calls the CAM
\* enables the controllee exactly when controllee_id or controllee_uuid is
\* Some, with the 32-bit format for an id and the 128-bit format for a uuid,
\* the same for the controller, and the identifiers written are the ones the
\* decoder reads back under that CAM.
C27_CamMatchesIdentifiers ==
    /\ controllee_enabled(cam)
           <=> (is_some(controllee_id) \/ is_some(controllee_uuid))
    /\ is_some(controllee_id) => controllee_id_format(cam) = Id32bit
    /\ is_some(controllee_uuid) => controllee_id_format(cam) = Uuid128bit
    /\ controller_enabled(cam)
           <=> (is_some(controller_id) \/ is_some(controller_uuid))
    /\ is_some(controller_id) => controller_id_format(cam) = Id32bit
    /\ is_some(controller_uuid) => controller_id_format(cam) = Uuid128bit
    /\ pc = "parsed" /\ parsed.outcome = "Ok"
           => /\ parsed.command[3] = controllee_id
              /\ parsed.command[4] = controllee_uuid
              /\ parsed.command[5] = controller_id
              /\ parsed.command[6] = controller_uuid

====
